---- MODULE Spec2Model ----
(***************************************************************************)
(* Model of the OpenClaw Cardputer firmware core: the binary wire codec    *)
(* (ProtocolHeader, ProtocolMessage), the streaming reassembler            *)
(* (ProtocolParser) and the application state machine (AppStateMachine).   *)
(***************************************************************************)
EXTENDS Integers, Sequences, FiniteSets, TLC

VARIABLES
    \* ---- wire codec (ProtocolMessage::serialize / deserialize)
    msg,                \* the message handed to serialize
    wire,               \* the bytes serialize produced (out_length of them)
    decoded,            \* the message object deserialize was called on
    codec_pc,           \* "start" -> "serialized" -> "ok" | "failed"
    given,              \* the bytes handed to setPayload
    \* ---- stream reassembler (ProtocolParser)
    state_,             \* ParseState
    buffer_,            \* buffer_[0 .. buffer_pos_), the bytes stored since the last reset
    buffer_pos_,        \* write index into buffer_
    expected_length_,
    current_header_,
    out_message,        \* the caller's ProtocolMessage passed to feed()
    scenario,           \* what the transport will deliver: garbage, then frames
    pos,                \* number of bytes of the stream handed to feed() so far
    emitted,            \* the messages of the feed() calls that returned true
    store_oob,          \* a byte was stored at an index outside buffer_
    overflow_resets,    \* times the overflow check of feed() reset the parser
    \* ---- application state machine (AppStateMachine, State)
    current_state_id_,
    previous_state_id_,
    current_state_,     \* the State object pointed to (its id), or "nullptr"
    transitioning_,
    event_queue_,
    entry_time_,        \* State::entry_time_ of every registered state
    now,                \* millis()
    stack,              \* the call stack of the main-loop context, innermost call last
    begun,              \* begin() has been called
    last_ret,           \* the call of the machine's API that returned in the last step
    table,              \* which table the application built before begin()
    trace,              \* when on: what the call the main loop made has done so far
    \* ---- audio streamer (AudioStreamer)
    config_,            \* AudioStreamerConfig
    event_callback_,    \* whether an AudioEventCallback is registered
    vad_state_,
    voice_start_time_,
    silence_start_time_,
    voice_frame_count_,
    total_frame_count_,
    voice_events_,
    millis,             \* millis() as the capture task reads it
    events,             \* the events handed to event_callback_ by the latest step
    run,                \* the frames since the level last crossed the threshold
    before,             \* the run that ended when `run` began
    stream_state_,      \* AudioStreamer::state_ (AudioStreamState)
    capture_task_,      \* the task handle: "nullptr" or "task"
    task_pc,            \* where the capture task is: none, loop, read, exited, deleted
    raw_queue_,         \* the queued frames, oldest first, or "nullptr"
    encoded_queue_,     \* the queued packets, oldest first, or "nullptr"
    frame_buffer_pos_,
    frames_captured_,
    frames_streamed_,
    errors_,
    fed,                \* samples handed to processFrame, frames completed, samples dropped
    last_frame,         \* what the latest processFrame did with the frame it completed
    last_call,          \* the latest call of the streamer's API, and who ended the task
    \* ---- audio capture (AudioCapture)
    capture             \* the AudioCapture object, its task and a stop() in progress

codecVars  == <<msg, wire, decoded, codec_pc, given>>
parserVars == <<state_, buffer_, buffer_pos_, expected_length_, current_header_,
                out_message, scenario, pos, emitted, store_oob, overflow_resets>>
smVars == <<current_state_id_, previous_state_id_, current_state_, transitioning_,
            event_queue_, entry_time_, now, stack, begun, last_ret, table, trace>>
vadVars == <<config_, event_callback_, vad_state_, voice_start_time_, silence_start_time_,
             voice_frame_count_, total_frame_count_, voice_events_, millis, events,
             run, before>>
streamVars == <<stream_state_, capture_task_, task_pc, raw_queue_, encoded_queue_,
                frame_buffer_pos_, frames_captured_, frames_streamed_, errors_, fed,
                last_frame, last_call>>
audioVars == <<vadVars, streamVars, capture>>
vars == <<codecVars, parserVars, smVars, audioVars>>

----------------------------------------------------------------------------
\* Fixed-width integer helpers

RECURSIVE BitXor(_, _)
BitXor(a, b) ==
    IF a = 0 THEN b
    ELSE IF b = 0 THEN a
    ELSE (((a % 2) + (b % 2)) % 2) + 2 * BitXor(a \div 2, b \div 2)

U16(x) == x % 65536
\* A uint32_t is kept as its two 16-bit halves: [hi, lo] stands for hi * 2^16 + lo.
U32(hi, lo) == [hi |-> hi, lo |-> lo]
\* a + 1, a - b and a >= b on uint32_t
U32Inc(a) == IF a.lo = 65535 THEN U32((a.hi + 1) % 65536, 0) ELSE U32(a.hi, a.lo + 1)
U32Sub(a, b) ==
    IF a.lo >= b.lo
    THEN U32((a.hi - b.hi + 65536) % 65536, a.lo - b.lo)
    ELSE U32((a.hi - b.hi - 1 + 131072) % 65536, a.lo - b.lo + 65536)
U32Ge(a, b) == a.hi > b.hi \/ (a.hi = b.hi /\ a.lo >= b.lo)

\* buf with the bytes `bytes` written at zero-based offset off (buf is 1-indexed)
Put(buf, off, bytes) ==
    [i \in 1 .. Len(buf) |->
        IF i > off /\ i <= off + Len(bytes) THEN bytes[i - off] ELSE buf[i]]

----------------------------------------------------------------------------
\* protocol.h constants

PROTOCOL_VERSION == 1
PROTOCOL_MAGIC == 79
PROTOCOL_HEADER_SIZE == 8
PROTOCOL_FOOTER_SIZE == 2
PROTOCOL_MAX_PAYLOAD_SIZE == 8192
PROTOCOL_MAX_MESSAGE_SIZE ==
    PROTOCOL_HEADER_SIZE + PROTOCOL_MAX_PAYLOAD_SIZE + PROTOCOL_FOOTER_SIZE

\* MessageType values used by the scenarios
PING == 3
TEXT == 16
UNKNOWN == 255
\* MessageFlags
NONE == 0
FINAL == 8

crc16_table ==
<<
    0, 4129, 8258, 12387, 16516, 20645, 24774, 28903,
    33032, 37161, 41290, 45419, 49548, 53677, 57806, 61935,
    4657, 528, 12915, 8786, 21173, 17044, 29431, 25302,
    37689, 33560, 45947, 41818, 54205, 50076, 62463, 58334,
    9314, 13379, 1056, 5121, 25830, 29895, 17572, 21637,
    42346, 46411, 34088, 38153, 58862, 62927, 50604, 54669,
    13907, 9842, 5649, 1584, 30423, 26358, 22165, 18100,
    46939, 42874, 38681, 34616, 63455, 59390, 55197, 51132,
    18628, 22757, 26758, 30887, 2112, 6241, 10242, 14371,
    51660, 55789, 59790, 63919, 35144, 39273, 43274, 47403,
    23285, 19156, 31415, 27286, 6769, 2640, 14899, 10770,
    56317, 52188, 64447, 60318, 39801, 35672, 47931, 43802,
    27814, 31879, 19684, 23749, 11298, 15363, 3168, 7233,
    60846, 64911, 52716, 56781, 44330, 48395, 36200, 40265,
    32407, 28342, 24277, 20212, 15891, 11826, 7761, 3696,
    65439, 61374, 57309, 53244, 48923, 44858, 40793, 36728,
    37256, 33193, 45514, 41451, 53516, 49453, 61774, 57711,
    4224, 161, 12482, 8419, 20484, 16421, 28742, 24679,
    33721, 37784, 41979, 46042, 49981, 54044, 58239, 62302,
    689, 4752, 8947, 13010, 16949, 21012, 25207, 29270,
    46570, 42443, 38312, 34185, 62830, 58703, 54572, 50445,
    13538, 9411, 5280, 1153, 29798, 25671, 21540, 17413,
    42971, 47098, 34713, 38840, 59231, 63358, 50973, 55100,
    9939, 14066, 1681, 5808, 26199, 30326, 17941, 22068,
    55628, 51565, 63758, 59695, 39368, 35305, 47498, 43435,
    22596, 18533, 30726, 26663, 6336, 2273, 14466, 10403,
    52093, 56156, 60223, 64286, 35833, 39896, 43963, 48026,
    19061, 23124, 27191, 31254, 2801, 6864, 10931, 14994,
    64814, 60687, 56684, 52557, 48554, 44427, 40424, 36297,
    31782, 27655, 23652, 19525, 15522, 11395, 7392, 3265,
    61215, 65342, 53085, 57212, 44955, 49082, 36825, 40952,
    28183, 32310, 20053, 24180, 11923, 16050, 3793, 7920
>>

\* calculateCRC16 with the table indexed by the low byte of the register
crcStep_lowByte(crc, byte) ==
    BitXor(U16(crc * 256), crc16_table[(BitXor(crc, byte) % 256) + 1])

\* One iteration of the loop of calculateCRC16:
\* crc = (crc << 8) ^ crc16_table[((crc >> 8) ^ data[i]) & 0xFF], crc a uint16_t
crcStep(crc, byte) ==
    BitXor(U16(crc * 256), crc16_table[(BitXor(crc \div 256, byte) % 256) + 1])

\* The loop over data[lo .. hi), folded left to right. The range is split in halves and
\* the left half is computed first (the test on `left`), which bounds the nesting.
RECURSIVE crcLoop(_, _, _, _)
crcLoop(crc, data, lo, hi) ==
    IF lo >= hi THEN crc
    ELSE IF hi - lo = 1 THEN crcStep(crc, data[lo + 1])
    ELSE LET left == crcLoop(crc, data, lo, (lo + hi) \div 2)
         IN  IF left \in Nat THEN crcLoop(left, data, (lo + hi) \div 2, hi) ELSE 0

\* ProtocolMessage::calculateCRC16 over data[0 .. length)
calculateCRC16(data, length) == crcLoop(65535, data, 0, length)

\* ProtocolHeader::encode: the ten bytes it writes at buffer[0 .. 9]
encode(header) ==
    << header.magic, header.version, header.type, header.flags,
       header.payload_length % 256, (header.payload_length \div 256) % 256,
       header.timestamp.lo % 256, (header.timestamp.lo \div 256) % 256,
       header.timestamp.hi % 256, (header.timestamp.hi \div 256) % 256 >>

\* ProtocolHeader::decode: reads buffer[0 .. 9]
decode(buffer) ==
    [ magic |-> buffer[1], version |-> buffer[2], type |-> buffer[3], flags |-> buffer[4],
      payload_length |-> buffer[5] + 256 * buffer[6],
      timestamp |-> U32(buffer[9] + 256 * buffer[10], buffer[7] + 256 * buffer[8]) ]

decodeOk(header) == header.magic = PROTOCOL_MAGIC /\ header.version = PROTOCOL_VERSION

\* ProtocolMessage: default-constructed object
EmptyMessage == [type_ |-> UNKNOWN, flags_ |-> NONE, payload_ |-> <<>>, timestamp_ |-> U32(0, 0)]

getTotalSize(m) == PROTOCOL_HEADER_SIZE + Len(m.payload_) + PROTOCOL_FOOTER_SIZE

\* ProtocolMessage::setPayload
setPayload(m, data, length) ==
    LET n == IF length > PROTOCOL_MAX_PAYLOAD_SIZE THEN PROTOCOL_MAX_PAYLOAD_SIZE ELSE length
    IN  [m EXCEPT !.payload_ = SubSeq(data, 1, n)]

\* ProtocolMessage::serialize into a buffer of buffer_size bytes:
\* [ok, bytes (the first out_length bytes of the buffer)]
serialize(m, buffer_size) ==
    LET total_size == getTotalSize(m)
        payload_length_ == Len(m.payload_)
        header == [ magic |-> PROTOCOL_MAGIC, version |-> PROTOCOL_VERSION,
                    type |-> m.type_, flags |-> m.flags_,
                    payload_length |-> U16(payload_length_), timestamp |-> m.timestamp_ ]
        b0 == [i \in 1 .. total_size |-> 0]
        b1 == Put(b0, 0, encode(header))
        b2 == IF payload_length_ > 0 THEN Put(b1, PROTOCOL_HEADER_SIZE, m.payload_) ELSE b1
        crc == calculateCRC16(b2, PROTOCOL_HEADER_SIZE + payload_length_)
        b3 == Put(b2, PROTOCOL_HEADER_SIZE + payload_length_, << crc % 256, (crc \div 256) % 256 >>)
    IN  IF buffer_size < total_size
        THEN [ok |-> FALSE, bytes |-> <<>>]
        ELSE [ok |-> TRUE, bytes |-> b3]

\* deserialize with the fields set before the CRC is verified
deserialize_fieldsFirst(m, buffer, buffer_length) ==
    IF buffer_length < PROTOCOL_HEADER_SIZE + PROTOCOL_FOOTER_SIZE
    THEN [ok |-> FALSE, msg |-> m]
    ELSE
    LET header == decode(buffer)
        data_length == PROTOCOL_HEADER_SIZE + header.payload_length
    IN  IF ~decodeOk(header) THEN [ok |-> FALSE, msg |-> m]
        ELSE IF buffer_length < PROTOCOL_HEADER_SIZE + header.payload_length + PROTOCOL_FOOTER_SIZE
        THEN [ok |-> FALSE, msg |-> m]
        ELSE
        LET received_crc == buffer[data_length + 1] + 256 * buffer[data_length + 2]
            calculated_crc == calculateCRC16(buffer, data_length)
            m1 == [m EXCEPT !.type_ = header.type, !.flags_ = header.flags,
                            !.timestamp_ = header.timestamp]
        IN  IF received_crc # calculated_crc THEN [ok |-> FALSE, msg |-> m1]
            ELSE [ok |-> TRUE,
                  msg |-> IF header.payload_length > 0
                          THEN setPayload(m1, SubSeq(buffer, PROTOCOL_HEADER_SIZE + 1, Len(buffer)),
                                          header.payload_length)
                          ELSE [m1 EXCEPT !.payload_ = <<>>]]

\* ProtocolMessage::deserialize called on message object m: [ok, msg]
deserialize(m, buffer, buffer_length) ==
    IF buffer_length < PROTOCOL_HEADER_SIZE + PROTOCOL_FOOTER_SIZE
    THEN [ok |-> FALSE, msg |-> m]
    ELSE
    LET header == decode(buffer)
        data_length == PROTOCOL_HEADER_SIZE + header.payload_length
    IN  IF ~decodeOk(header) THEN [ok |-> FALSE, msg |-> m]
        ELSE IF buffer_length < PROTOCOL_HEADER_SIZE + header.payload_length + PROTOCOL_FOOTER_SIZE
        THEN [ok |-> FALSE, msg |-> m]
        ELSE
        LET received_crc == buffer[data_length + 1] + 256 * buffer[data_length + 2]
            calculated_crc == calculateCRC16(buffer, data_length)
            m1 == [m EXCEPT !.type_ = header.type, !.flags_ = header.flags,
                            !.timestamp_ = header.timestamp]
        IN  IF received_crc # calculated_crc THEN [ok |-> FALSE, msg |-> m]
            ELSE [ok |-> TRUE,
                  msg |-> IF header.payload_length > 0
                          THEN setPayload(m1, SubSeq(buffer, PROTOCOL_HEADER_SIZE + 1, Len(buffer)),
                                          header.payload_length)
                          ELSE [m1 EXCEPT !.payload_ = <<>>]]

----------------------------------------------------------------------------
\* ProtocolParser

\* The parser as one record, as feed() sees it; ret is feed()'s return value.
ParserRecord(st, buf, bp, el, hd, om, oob, ovf) ==
    [ state_ |-> st, buffer_ |-> buf, buffer_pos_ |-> bp, expected_length_ |-> el,
      current_header_ |-> hd, out_message |-> om, ret |-> FALSE,
      store_oob |-> oob, overflow_resets |-> ovf ]

ZeroHeader == [ magic |-> 0, version |-> 0, type |-> 0, flags |-> 0,
                payload_length |-> 0, timestamp |-> U32(0, 0) ]

\* ProtocolParser::reset
reset(p) ==
    [p EXCEPT !.state_ = "WAITING_MAGIC", !.buffer_pos_ = 0, !.buffer_ = <<>>,
              !.expected_length_ = 0]

\* buffer_[buffer_pos_++] = data[i]
store(p, byte) ==
    [p EXCEPT !.buffer_ = Append(@, byte), !.buffer_pos_ = @ + 1,
              !.store_oob = @ \/ p.buffer_pos_ >= PROTOCOL_MAX_MESSAGE_SIZE]

\* overflowCheck with the comparison off by one
overflowCheck_offByOne(p) ==
    IF p.buffer_pos_ > PROTOCOL_MAX_MESSAGE_SIZE
    THEN [reset(p) EXCEPT !.overflow_resets = @ + 1]
    ELSE p

\* "Prevent buffer overflow": the check that ends an iteration of feed()'s loop
overflowCheck(p) ==
    IF p.buffer_pos_ >= PROTOCOL_MAX_MESSAGE_SIZE
    THEN [reset(p) EXCEPT !.overflow_resets = @ + 1]
    ELSE p

\* waitingMagic with a byte that is not the magic byte left in the buffer
waitingMagic_keepsGarbage(p) ==
    IF p.buffer_[1] = PROTOCOL_MAGIC
    THEN [p EXCEPT !.state_ = "WAITING_HEADER", !.expected_length_ = 10]
    ELSE p

\* case WAITING_MAGIC
waitingMagic(p) ==
    IF p.buffer_[1] = PROTOCOL_MAGIC
    THEN [p EXCEPT !.state_ = "WAITING_HEADER", !.expected_length_ = 10]
    ELSE [p EXCEPT !.buffer_pos_ = 0, !.buffer_ = <<>>]

\* case WAITING_HEADER, once buffer_pos_ >= expected_length_ and the header decoded
headerDecoded(p) ==
    IF p.current_header_.payload_length > 0
    THEN [p EXCEPT !.state_ = "WAITING_PAYLOAD",
                   !.expected_length_ = PROTOCOL_HEADER_SIZE + p.current_header_.payload_length]
    ELSE [p EXCEPT !.state_ = "WAITING_CRC",
                   !.expected_length_ = PROTOCOL_HEADER_SIZE + PROTOCOL_FOOTER_SIZE]

\* case WAITING_PAYLOAD
waitingPayload(p) ==
    IF p.buffer_pos_ >= p.expected_length_
    THEN [p EXCEPT !.state_ = "WAITING_CRC",
                   !.expected_length_ = PROTOCOL_HEADER_SIZE + p.current_header_.payload_length
                                        + PROTOCOL_FOOTER_SIZE]
    ELSE p

\* One iteration of the loop of feed(): store the byte, the switch, the overflow check.
\* `continue` and `return true` leave the iteration before the overflow check.
feedByte(p, byte) ==
    LET s == store(p, byte)
    IN  CASE s.state_ = "WAITING_MAGIC" -> overflowCheck(waitingMagic(s))
          [] s.state_ = "WAITING_HEADER" ->
                IF s.buffer_pos_ >= s.expected_length_
                THEN LET h == [s EXCEPT !.current_header_ = decode(s.buffer_)]
                     IN  IF ~decodeOk(h.current_header_)
                         THEN reset(h)
                         ELSE overflowCheck(headerDecoded(h))
                ELSE overflowCheck(s)
          [] s.state_ = "WAITING_PAYLOAD" -> overflowCheck(waitingPayload(s))
          [] s.state_ = "WAITING_CRC" ->
                IF s.buffer_pos_ >= s.expected_length_
                THEN LET d == deserialize(s.out_message, s.buffer_, s.buffer_pos_)
                     IN  IF d.ok
                         THEN [reset(s) EXCEPT !.out_message = d.msg, !.ret = TRUE]
                         ELSE overflowCheck(reset(s))
                ELSE overflowCheck(s)
          [] OTHER -> overflowCheck(reset(s))

\* The loop of feed() over data[lo .. hi), left to right; it ends at the first iteration
\* that returns true. The range is split in halves, which bounds the nesting.
RECURSIVE feedLoop(_, _, _, _)
feedLoop(p, data, lo, hi) ==
    IF lo >= hi THEN p
    ELSE IF hi - lo = 1 THEN feedByte(p, data[lo + 1])
    ELSE LET left == feedLoop(p, data, lo, (lo + hi) \div 2)
         IN  IF left.ret THEN left ELSE feedLoop(left, data, (lo + hi) \div 2, hi)

\* ProtocolParser::feed(data, length, out_message)
feed(p, data) == feedLoop([p EXCEPT !.ret = FALSE], data, 0, Len(data))

----------------------------------------------------------------------------
\* Bounds of the scenarios

MaxPayloadLen == 3      \* payload lengths 0 .. MaxPayloadLen
MaxGarbage == 2         \* garbage bytes in front of the first frame
MaxFrames == 2          \* frames in a stream
MaxChunk == 26          \* bytes handed to one feed() call
MaxBurst == 1024        \* bytes per feed() call in the long overflow streams
OverflowTail == 1024    \* filler delivered beyond PROTOCOL_MAX_MESSAGE_SIZE in those streams

\* the payload of length n used by the parser scenarios: 0xA0, the magic byte, 0xA2, ...
PatternByte(i) == IF i = 2 THEN PROTOCOL_MAGIC ELSE (159 + i) % 256
Payload(n) == [i \in 1 .. n |-> PatternByte(i)]

Message(t, f, p, ts) == [type_ |-> t, flags_ |-> f, payload_ |-> p, timestamp_ |-> ts]

----------------------------------------------------------------------------
\* Wire codec: serialize a message, then deserialize the bytes produced

Types == {PING, TEXT, UNKNOWN}
Flags == {NONE, FINAL}
CodecBytes == {0, PROTOCOL_MAGIC, 255}
Timestamps == {U32(0, 0), U32(0, 65535), U32(4660, 22136), U32(65535, 65535)}

CodecMessages ==
    { Message(t, f, p, ts) :
        t \in Types, f \in Flags, ts \in Timestamps,
        p \in UNION { [1 .. n -> CodecBytes] : n \in 0 .. MaxPayloadLen } }

InitCodec ==
    /\ msg \in CodecMessages
    /\ given = msg.payload_
    /\ wire = <<>>
    /\ decoded = EmptyMessage
    /\ codec_pc = "start"

CodecIdle ==
    /\ msg = EmptyMessage
    /\ given = <<>>
    /\ wire = <<>>
    /\ decoded = EmptyMessage
    /\ codec_pc = "idle"

\* serialize(buffer, buffer_size, out_length) with a buffer one byte short, exact, or maximal
Serialize ==
    /\ codec_pc = "start"
    /\ \E buffer_size \in {getTotalSize(msg) - 1, getTotalSize(msg), PROTOCOL_MAX_MESSAGE_SIZE} :
         \E r \in { serialize(msg, buffer_size) } :
             /\ wire' = r.bytes
             /\ codec_pc' = IF r.ok THEN "serialized" ELSE "buffer_too_small"
    /\ UNCHANGED <<msg, decoded, given>>
    /\ UNCHANGED parserVars
    /\ UNCHANGED smVars
    /\ UNCHANGED audioVars

\* deserialize(wire, out_length) on a default-constructed message
Deserialize ==
    /\ codec_pc = "serialized"
    /\ \E d \in { deserialize(decoded, wire, Len(wire)) } :
           /\ decoded' = d.msg
           /\ codec_pc' = IF d.ok THEN "decoded" ELSE "rejected"
    /\ UNCHANGED <<msg, wire, given>>
    /\ UNCHANGED parserVars
    /\ UNCHANGED smVars
    /\ UNCHANGED audioVars

NextCodec == Serialize \/ Deserialize

----------------------------------------------------------------------------
\* Stream reassembler: a transport delivers a stream in chunks to feed()

RECURSIVE Flatten(_)
Flatten(fs) == IF fs = <<>> THEN <<>> ELSE Head(fs).bytes \o Flatten(Tail(fs))

Stream == scenario.garbage \o Flatten(scenario.frames)

\* The messages of the parser scenarios
ParserMessages == { Message(TEXT, NONE, Payload(n), U32(4660, 22136)) : n \in 0 .. MaxPayloadLen }

\* A frame as serialize produces it
ValidFrame(m) == [kind |-> "valid", m |-> m, bytes |-> serialize(m, getTotalSize(m)).bytes]

\* The same frame with its last checksum byte damaged in transit
CorruptFrame(m) ==
    LET b == serialize(m, getTotalSize(m)).bytes
    IN  [kind |-> "corrupt", m |-> m,
         bytes |-> [b EXCEPT ![Len(b)] = (@ + 1) % 256]]

\* A header declaring payload_length = len, followed by n filler bytes
HeaderOf(len) ==
    encode([ magic |-> PROTOCOL_MAGIC, version |-> PROTOCOL_VERSION, type |-> TEXT,
             flags |-> NONE, payload_length |-> len, timestamp |-> U32(0, 0) ])

OversizeFrame(len, n) ==
    [kind |-> "oversize", m |-> EmptyMessage,
     bytes |-> HeaderOf(len) \o [i \in 1 .. n |-> 0]]

GarbageSeqs == { [i \in 1 .. n |-> 0] : n \in 0 .. MaxGarbage }

FrameChoices ==
    { ValidFrame(m) : m \in ParserMessages } \cup { CorruptFrame(m) : m \in ParserMessages }
    \cup { OversizeFrame(PROTOCOL_MAX_PAYLOAD_SIZE + 1, MaxGarbage) }

ParserScenarios ==
    { [garbage |-> g, frames |-> fs] :
        g \in GarbageSeqs, fs \in UNION { [1 .. k -> FrameChoices] : k \in 1 .. MaxFrames } }

\* Streams long enough to fill buffer_: an oversize header and filler, or a valid frame
\* of maximal payload; then a short valid frame
OverflowScenarios ==
    { [garbage |-> <<>>,
       frames |-> << OversizeFrame(len, PROTOCOL_MAX_MESSAGE_SIZE - 10 + t),
                     ValidFrame(Message(TEXT, NONE, Payload(2), U32(0, 0))) >>] :
        len \in {PROTOCOL_MAX_PAYLOAD_SIZE + 1, 65535}, t \in {0, OverflowTail} }
    \cup
    { [garbage |-> <<>>,
       frames |-> << ValidFrame(Message(TEXT, NONE, Payload(PROTOCOL_MAX_PAYLOAD_SIZE), U32(0, 0))),
                     ValidFrame(Message(TEXT, NONE, Payload(2), U32(0, 0))) >>] }

FreshParser ==
    /\ state_ = "WAITING_MAGIC"
    /\ buffer_ = <<>>
    /\ buffer_pos_ = 0
    /\ expected_length_ = 0
    /\ current_header_ = ZeroHeader
    /\ out_message = EmptyMessage
    /\ pos = 0
    /\ emitted = <<>>
    /\ store_oob = FALSE
    /\ overflow_resets = 0

InitParser == FreshParser /\ scenario \in ParserScenarios

InitOverflow == FreshParser /\ scenario \in OverflowScenarios

ParserIdle == FreshParser /\ scenario = [garbage |-> <<>>, frames |-> <<>>]

Min(a, b) == IF a < b THEN a ELSE b

\* One feed() call with the next n bytes of the stream (fewer when the stream ends)
Feed(n) ==
    /\ pos < Len(Stream)
    /\ \E r \in { feed(ParserRecord(state_, buffer_, buffer_pos_, expected_length_,
                                    current_header_, out_message, store_oob, overflow_resets),
                       SubSeq(Stream, pos + 1, Min(pos + n, Len(Stream)))) } :
           /\ state_' = r.state_
           /\ buffer_' = r.buffer_
           /\ buffer_pos_' = r.buffer_pos_
           /\ expected_length_' = r.expected_length_
           /\ current_header_' = r.current_header_
           /\ out_message' = r.out_message
           /\ store_oob' = r.store_oob
           /\ overflow_resets' = r.overflow_resets
           /\ emitted' = IF r.ret THEN Append(emitted, r.out_message) ELSE emitted
    /\ pos' = Min(pos + n, Len(Stream))
    /\ UNCHANGED scenario
    /\ UNCHANGED codecVars
    /\ UNCHANGED smVars
    /\ UNCHANGED audioVars

NextParser == \E n \in 1 .. MaxChunk : Feed(n)

NextOverflow == \E n \in {MaxBurst - 1, MaxBurst} : Feed(n)

----------------------------------------------------------------------------
\* Application state machine (app_state_machine.cpp)
\*
\* The machine runs in one thread.  Its functions call user code (state actions,
\* guards, rule actions, the state-change callback) and user code may call the
\* machine again, so a call is run up to the next invocation of user code: the
\* call stack is part of the state and user code decides what happens next.

MaxQueue == 2
MaxNesting == 2
MaxTicks == 2
MaxTrace == 32
MaxPosts == 1
MaxVadMs == 2
MaxVadFrames == 7
MaxJitter == 1
MaxErrors == 1
MaxStreamFrames == 5
MaxFed == 8
MaxCaptureFrames == 12
MaxTasks == 2
MaxPauses == 2

\* main.cpp
WIFI_CONNECT_TIMEOUT_MS == 30000

\* The states setupStateMachine() creates and adds
ApplicationStates ==
    {"BOOT", "CONFIG_LOADING", "WIFI_CONNECTING", "GATEWAY_CONNECTING", "AUTHENTICATING",
     "READY", "VOICE_INPUT", "AI_PROCESSING", "AI_RESPONDING", "ANCIENT_MODE", "ERROR_STATE"}

\* A table built with addState / addTransition / setTimeout before begin(): the
\* table "application" is the one of setupStateMachine(); the others have three
\* registered states and one state that is never registered.
Registered ==
    IF table = "application" THEN ApplicationStates ELSE {"BOOT", "CONFIG_LOADING", "READY"}
AppState == Registered \cup {"SHUTTING_DOWN"}
AppEvent == {"BOOT_COMPLETE", "SHUTDOWN"}

\* Transition: guard and action tell whether the rule has one
Transition(event, target, guard, action) ==
    [event |-> event, target_state |-> target, guard |-> guard, action |-> action]

\* the rules setupStateMachine() adds, in the order of its addTransition calls; none
\* has a guard or an action
Rule(event, target) == Transition(event, target, FALSE, FALSE)

setupTransitions(s) ==
    CASE s = "BOOT" ->
            << Rule("BOOT_COMPLETE", "CONFIG_LOADING") >>
      [] s = "CONFIG_LOADING" ->
            << Rule("CONFIG_LOADED", "WIFI_CONNECTING"),
               Rule("CONFIG_ERROR", "ERROR_STATE") >>
      [] s = "WIFI_CONNECTING" ->
            << Rule("WIFI_CONNECTED", "GATEWAY_CONNECTING"),
               Rule("WIFI_ERROR", "ERROR_STATE") >>
      [] s = "GATEWAY_CONNECTING" ->
            << Rule("GATEWAY_CONNECTED", "AUTHENTICATING"),
               Rule("GATEWAY_ERROR", "ERROR_STATE"),
               Rule("WIFI_DISCONNECTED", "WIFI_CONNECTING") >>
      [] s = "AUTHENTICATING" ->
            << Rule("AUTHENTICATED", "READY"),
               Rule("AUTH_FAILED", "ERROR_STATE") >>
      [] s = "READY" ->
            << Rule("VOICE_KEY_PRESSED", "VOICE_INPUT"),
               Rule("TEXT_SUBMITTED", "AI_PROCESSING"),
               Rule("ANCIENT_MODE_TRIGGER", "ANCIENT_MODE"),
               Rule("WIFI_DISCONNECTED", "WIFI_CONNECTING"),
               Rule("GATEWAY_DISCONNECTED", "GATEWAY_CONNECTING") >>
      [] s = "VOICE_INPUT" ->
            << Rule("VOICE_STOPPED", "AI_PROCESSING"),
               Rule("VOICE_KEY_PRESSED", "READY") >>
      [] s = "AI_PROCESSING" ->
            << Rule("AI_RESPONSE_CHUNK", "AI_RESPONDING"),
               Rule("AI_RESPONSE_COMPLETE", "READY"),
               Rule("AI_ERROR", "READY") >>
      [] s = "AI_RESPONDING" ->
            << Rule("AI_RESPONSE_COMPLETE", "READY"),
               Rule("AI_RESPONSE_CHUNK", "AI_RESPONDING") >>
      [] s = "ANCIENT_MODE" ->
            << Rule("ANCIENT_MODE_TRIGGER", "READY"),
               Rule("TEXT_SUBMITTED", "AI_PROCESSING") >>
      [] s = "ERROR_STATE" ->
            << Rule("ERROR_RECOVERED", "WIFI_CONNECTING"),
               Rule("FORCE_RECONNECT", "WIFI_CONNECTING") >>

\* the setTimeout calls of setupStateMachine(); a state without one keeps the
\* timeout_ms_ = 0 and timeout_state_ = BOOT of State::State
setupTimeout(s) ==
    CASE s = "BOOT" -> [ms |-> U32(0, 2000), state |-> "CONFIG_LOADING"]
      [] s = "WIFI_CONNECTING" -> [ms |-> U32(0, WIFI_CONNECT_TIMEOUT_MS), state |-> "ERROR_STATE"]
      [] s = "AUTHENTICATING" -> [ms |-> U32(0, 10000), state |-> "ERROR_STATE"]
      [] s = "VOICE_INPUT" -> [ms |-> U32(0, 30000), state |-> "READY"]
      [] s = "AI_PROCESSING" -> [ms |-> U32(0, 60000), state |-> "READY"]
      [] s = "ANCIENT_MODE" -> [ms |-> U32(300000 \div 65536, 300000 % 65536), state |-> "READY"]
      [] s = "ERROR_STATE" -> [ms |-> U32(0, 5000), state |-> "WIFI_CONNECTING"]
      [] OTHER -> [ms |-> U32(0, 0), state |-> "BOOT"]

\* the states setupStateMachine() gives an entry action, an exit action
setupEntryAction(s) == s \in {"VOICE_INPUT", "AI_PROCESSING", "AI_RESPONDING", "ANCIENT_MODE"}
setupExitAction(s) == s \in {"VOICE_INPUT", "AI_RESPONDING", "ANCIENT_MODE"}

transitions_(s) ==
    IF table = "application" THEN setupTransitions(s)
    ELSE
    CASE s = "BOOT" ->
            << Transition("BOOT_COMPLETE", "CONFIG_LOADING", FALSE, FALSE) >>
      [] s = "CONFIG_LOADING" ->
            << Transition("BOOT_COMPLETE", "READY", TRUE, TRUE),
               Transition("BOOT_COMPLETE", "BOOT", FALSE, FALSE),
               Transition("SHUTDOWN", "SHUTTING_DOWN", FALSE, TRUE) >>
      [] s = "READY" ->
            << Transition("BOOT_COMPLETE", "READY", FALSE, TRUE),
               Transition("SHUTDOWN", "BOOT", TRUE, FALSE) >>

timeout_ms_(s) ==
    IF table = "application" THEN setupTimeout(s).ms
    ELSE
    CASE s = "BOOT" -> U32(0, 2)
      [] s = "CONFIG_LOADING" -> U32(0, 0)
      [] s = "READY" -> U32(0, 1)

\* in the table "unregistered_timeout" READY times out to a state never registered
Tables == {"lifecycle", "unregistered_timeout"}

timeout_state_(s) ==
    IF table = "application" THEN setupTimeout(s).state
    ELSE
    CASE s = "BOOT" -> "CONFIG_LOADING"
      [] s = "CONFIG_LOADING" -> "BOOT"
      [] s = "READY" -> IF table = "unregistered_timeout" THEN "SHUTTING_DOWN" ELSE "BOOT"

entry_action_(s) ==
    IF table = "application" THEN setupEntryAction(s) ELSE s \in {"CONFIG_LOADING", "READY"}
exit_action_(s) ==
    IF table = "application" THEN setupExitAction(s) ELSE s \in {"BOOT", "CONFIG_LOADING"}
update_action_(s) == table # "application" /\ s \in {"CONFIG_LOADING"}
on_state_change_ == TRUE

findState(id) == IF id \in Registered THEN id ELSE "nullptr"

\* ---- the call stack

Top(c) == c.stack[Len(c.stack)]
Pop(c) == [c EXCEPT !.stack = SubSeq(@, 1, Len(@) - 1)]
Push(c, frame) == [c EXCEPT !.stack = Append(@, frame)]
SetTop(c, frame) == [c EXCEPT !.stack[Len(c.stack)] = frame]
At(c, pc) == SetTop(c, [Top(c) EXCEPT !.pc = pc])

\* with the trace on, rec is appended to it
Trace(c, rec) == IF c.trace.on THEN [c EXCEPT !.trace.log = Append(@, rec)] ELSE c

\* what a transition may change: the ids, the entry timestamps, the reentrancy flag
Snap(c) == <<c.current_state_id_, c.previous_state_id_, c.entry_time_, c.transitioning_>>

\* user code running, called from the machine
Callback(kind, s) == [f |-> "callback", kind |-> kind, state |-> s]

\* a call of update(), transitionTo(target) or forceTransition(target)
ApiFrame(api, target, caller, c) ==
    [f |-> IF api = "update" THEN "update" ELSE "transitionTo",
     api |-> api, pc |-> "start", target |-> target, caller |-> caller,
     during |-> c.transitioning_,
     from |-> IF api = "update" THEN "none" ELSE c.current_state_id_, steps |-> <<>>,
     before |-> IF c.trace.on /\ api # "update" THEN Snap(c) ELSE <<>>]

HandleFrame(event, s) == [f |-> "handleEvent", pc |-> "scan", event |-> event, state |-> s, i |-> 1]
ProcessFrame == [f |-> "processEvents"]
BeginFrame == [f |-> "begin", pc |-> "start"]

\* no call has returned
NoRet ==
    [op |-> "none", caller |-> "none", ret |-> FALSE, during |-> FALSE,
     from |-> "none", target |-> "none", current |-> "none", previous |-> "none",
     steps |-> 0]

\* the call on top of the stack returns ret (for update(): whether it got past its first
\* line); current and previous are what getCurrentState() and getPreviousState() then give
Return(c, ret) ==
    LET f == Top(c)
        r == [op |-> f.api, caller |-> f.caller, ret |-> ret, during |-> f.during,
              from |-> f.from, target |-> f.target,
              current |-> c.current_state_id_, previous |-> c.previous_state_id_,
              steps |-> Len(f.steps)]
    IN  Trace([Pop(c) EXCEPT !.last_ret = r],
              [k |-> "return", ret |-> r, before |-> f.before,
               after |-> IF f.api = "update" THEN <<>> ELSE Snap(c),
               queue |-> c.event_queue_])

\* ---- State

\* what is observable when the machine reaches a step of a transition
Observe(c, step, s, args) ==
    [step |-> step, state |-> s, args |-> args,
     current |-> c.current_state_id_, previous |-> c.previous_state_id_,
     timed |-> (step = "onEntry" /\ c.entry_time_[s] = c.now)]

\* the transition on top of the stack has reached a step
LogStep(c, rec) ==
    Trace(IF Top(c).f = "transitionTo"
          THEN SetTop(c, [Top(c) EXCEPT !.steps = Append(@, rec)]) ELSE c,
          [k |-> rec.step, obs |-> rec])

\* State::onEntry without the timestamp
onEntry_noTimestamp(c, s) ==
    LET c2 == LogStep(c, Observe(c, "onEntry", s, <<>>))
    IN  IF entry_action_(s) THEN Push(c2, Callback("entry_action", s)) ELSE c2

onEntry(c, s) ==
    LET c1 == [c EXCEPT !.entry_time_[s] = c.now]
        c2 == LogStep(c1, Observe(c1, "onEntry", s, <<>>))
    IN  IF entry_action_(s) THEN Push(c2, Callback("entry_action", s)) ELSE c2

onExit(c, s) ==
    LET c1 == LogStep(c, Observe(c, "onExit", s, <<>>))
    IN  IF exit_action_(s) THEN Push(c1, Callback("exit_action", s)) ELSE c1

onUpdate(c, s) ==
    IF update_action_(s) THEN Push(c, Callback("update_action", s)) ELSE c

\* checkTimeout with > for >=
checkTimeout_strict(c, s) ==
    /\ timeout_ms_(s) # U32(0, 0)
    /\ U32Ge(U32Sub(c.now, c.entry_time_[s]), U32Inc(timeout_ms_(s)))

checkTimeout(c, s) ==
    /\ timeout_ms_(s) # U32(0, 0)
    /\ U32Ge(U32Sub(c.now, c.entry_time_[s]), timeout_ms_(s))

\* State::handleEvent without the comparison of the rule's event with the event handled
handleEvent_anyEvent(c) ==
    LET f == Top(c)
        ts == transitions_(f.state)
    IN  CASE f.pc = "scan" ->
                IF f.i > Len(ts) THEN Trace(Pop(c), [k |-> "unhandled", snap |-> Snap(c)])
                ELSE IF ts[f.i].guard THEN Push(At(c, "guard"), Callback("guard", f.state))
                ELSE At(c, "fire")
          [] f.pc = "fire" ->
                IF ts[f.i].action
                THEN Push(Trace(At(c, "fired"),
                                [k |-> "action", rule |-> f.i, current |-> c.current_state_id_]),
                          Callback("action", f.state))
                ELSE At(c, "fired")
          [] f.pc = "fired" ->
                \* returns true with out_target; processEvents calls transitionTo(target)
                LET c1 == Trace(Pop(c), [k |-> "handled", rule |-> f.i,
                                         target |-> ts[f.i].target_state])
                IN  Push(c1, ApiFrame("transitionTo", ts[f.i].target_state, "processEvents", c1))

\* State::handleEvent, from where the frame on top of the stack stands
handleEvent(c) ==
    LET f == Top(c)
        ts == transitions_(f.state)
    IN  CASE f.pc = "scan" ->
                IF f.i > Len(ts) THEN Trace(Pop(c), [k |-> "unhandled", snap |-> Snap(c)])
                ELSE IF ts[f.i].event # f.event THEN SetTop(c, [f EXCEPT !.i = @ + 1])
                ELSE IF ts[f.i].guard THEN Push(At(c, "guard"), Callback("guard", f.state))
                ELSE At(c, "fire")
          [] f.pc = "fire" ->
                IF ts[f.i].action
                THEN Push(Trace(At(c, "fired"),
                                [k |-> "action", rule |-> f.i, current |-> c.current_state_id_]),
                          Callback("action", f.state))
                ELSE At(c, "fired")
          [] f.pc = "fired" ->
                \* returns true with out_target; processEvents calls transitionTo(target)
                LET c1 == Trace(Pop(c), [k |-> "handled", rule |-> f.i,
                                         target |-> ts[f.i].target_state])
                IN  Push(c1, ApiFrame("transitionTo", ts[f.i].target_state, "processEvents", c1))

\* ---- AppStateMachine

begin(c) ==
    LET f == Top(c)
    IN  CASE f.pc = "start" ->
                LET c1 == At([c EXCEPT !.current_state_ = findState(c.current_state_id_)], "return")
                IN  IF c1.current_state_ # "nullptr" THEN onEntry(c1, c1.current_state_) ELSE c1
          [] f.pc = "return" -> Pop(c)

\* update draining the queue before it checks the timeout
update_eventsFirst(c) ==
    LET f == Top(c)
    IN  CASE f.pc = "start" ->
                IF c.current_state_ = "nullptr" \/ c.transitioning_
                THEN Return(c, FALSE)
                ELSE onUpdate(Trace(At(c, "processEvents"),
                                    [k |-> "update", current |-> c.current_state_id_,
                                     queue |-> c.event_queue_]),
                              c.current_state_)
          [] f.pc = "processEvents" -> Push(At(c, "checkTimeout"), ProcessFrame)
          [] f.pc = "checkTimeout" ->
                IF checkTimeout(c, c.current_state_)
                THEN LET c1 == Trace(At(c, "return"),
                                     [k |-> "timeout", state |-> c.current_state_,
                                      target |-> timeout_state_(c.current_state_)])
                     IN  Push(c1, ApiFrame("transitionTo", timeout_state_(c.current_state_), "update", c1))
                ELSE At(c, "return")
          [] f.pc = "return" -> Return(c, TRUE)

update(c) ==
    LET f == Top(c)
    IN  CASE f.pc = "start" ->
                IF c.current_state_ = "nullptr" \/ c.transitioning_
                THEN Return(c, FALSE)
                ELSE onUpdate(Trace(At(c, "checkTimeout"),
                                    [k |-> "update", current |-> c.current_state_id_,
                                     queue |-> c.event_queue_]),
                              c.current_state_)
          [] f.pc = "checkTimeout" ->
                LET c0 == Trace(c, [k |-> "checkTimeout", state |-> c.current_state_,
                                    now |-> c.now, snap |-> Snap(c)])
                IN  IF checkTimeout(c0, c0.current_state_)
                    THEN LET c1 == Trace(At(c0, "processEvents"),
                                         [k |-> "timeout", state |-> c0.current_state_,
                                          target |-> timeout_state_(c0.current_state_)])
                         IN  Push(c1, ApiFrame("transitionTo", timeout_state_(c0.current_state_),
                                               "update", c1))
                    ELSE At(c0, "processEvents")
          [] f.pc = "processEvents" -> Push(At(c, "return"), ProcessFrame)
          [] f.pc = "return" -> Return(c, TRUE)

\* transitionTo without its first line
transitionTo_reentrant(c) ==
    LET f == Top(c)
    IN  CASE f.pc = "start" ->
                IF f.target = c.current_state_id_ THEN Return(c, TRUE)
                ELSE IF findState(f.target) = "nullptr" THEN Return(c, FALSE)
                ELSE LET c1 == At([c EXCEPT !.transitioning_ = TRUE], "enter")
                     IN  IF c1.current_state_ # "nullptr" THEN onExit(c1, c1.current_state_) ELSE c1
          [] f.pc = "enter" ->
                onEntry(At([c EXCEPT !.previous_state_id_ = c.current_state_id_,
                                     !.current_state_id_ = f.target,
                                     !.current_state_ = findState(f.target)], "changed"),
                        f.target)
          [] f.pc = "changed" ->
                IF on_state_change_
                THEN Push(LogStep(At(c, "return"),
                                  Observe(c, "on_state_change", c.current_state_id_,
                                          <<c.previous_state_id_, c.current_state_id_>>)),
                          Callback("on_state_change", c.current_state_id_))
                ELSE At(c, "return")
          [] f.pc = "return" ->
                Return([c EXCEPT !.transitioning_ = FALSE], TRUE)

\* transitionTo writing previous_state_id_ before it finds the target unregistered
transitionTo_unknownMutates(c) ==
    IF Top(c).pc # "start" THEN transitionTo_reentrant(c)
    ELSE IF c.transitioning_ THEN Return(c, FALSE)
    ELSE IF Top(c).target = c.current_state_id_ THEN Return(c, TRUE)
    ELSE IF findState(Top(c).target) = "nullptr"
         THEN Return([c EXCEPT !.previous_state_id_ = c.current_state_id_], FALSE)
    ELSE LET c1 == At([c EXCEPT !.transitioning_ = TRUE], "enter")
         IN  IF c1.current_state_ # "nullptr" THEN onExit(c1, c1.current_state_) ELSE c1

\* transitionTo without its second line: a request for the current state is carried out
transitionTo_sameStateRuns(c) ==
    IF Top(c).pc # "start" THEN transitionTo_reentrant(c)
    ELSE IF c.transitioning_ THEN Return(c, FALSE)
    ELSE IF findState(Top(c).target) = "nullptr" THEN Return(c, FALSE)
    ELSE LET c1 == At([c EXCEPT !.transitioning_ = TRUE], "enter")
         IN  IF c1.current_state_ # "nullptr" THEN onExit(c1, c1.current_state_) ELSE c1

\* transitionTo setting the flag before it looks the target up: the return for an
\* unregistered target leaves it set
transitionTo_flagLeftSet(c) ==
    IF Top(c).pc # "start" THEN transitionTo_reentrant(c)
    ELSE IF c.transitioning_ THEN Return(c, FALSE)
    ELSE IF Top(c).target = c.current_state_id_ THEN Return(c, TRUE)
    ELSE IF findState(Top(c).target) = "nullptr"
         THEN Return([c EXCEPT !.transitioning_ = TRUE], FALSE)
    ELSE LET c1 == At([c EXCEPT !.transitioning_ = TRUE], "enter")
         IN  IF c1.current_state_ # "nullptr" THEN onExit(c1, c1.current_state_) ELSE c1

transitionTo(c) ==
    LET f == Top(c)
    IN  CASE f.pc = "start" ->
                IF c.transitioning_ THEN Return(c, FALSE)
                ELSE IF f.target = c.current_state_id_ THEN Return(c, TRUE)
                ELSE IF findState(f.target) = "nullptr" THEN Return(c, FALSE)
                ELSE LET c1 == At([c EXCEPT !.transitioning_ = TRUE], "enter")
                     IN  IF c1.current_state_ # "nullptr" THEN onExit(c1, c1.current_state_) ELSE c1
          [] f.pc = "enter" ->
                onEntry(At([c EXCEPT !.previous_state_id_ = c.current_state_id_,
                                     !.current_state_id_ = f.target,
                                     !.current_state_ = findState(f.target)], "changed"),
                        f.target)
          [] f.pc = "changed" ->
                IF on_state_change_
                THEN Push(LogStep(At(c, "return"),
                                  Observe(c, "on_state_change", c.current_state_id_,
                                          <<c.previous_state_id_, c.current_state_id_>>)),
                          Callback("on_state_change", c.current_state_id_))
                ELSE At(c, "return")
          [] f.pc = "return" ->
                Return([c EXCEPT !.transitioning_ = FALSE], TRUE)

\* postEvent putting the event at the head of the queue
postEvent_atFront(c, type) ==
    Trace([c EXCEPT !.event_queue_ = <<type>> \o @], [k |-> "post", type |-> type])

postEvent(c, type) ==
    Trace([c EXCEPT !.event_queue_ = Append(@, type)], [k |-> "post", type |-> type])

\* processEvents taking the event posted last
processEvents_newestFirst(c) ==
    IF c.event_queue_ = <<>> THEN Pop(c)
    ELSE LET event == c.event_queue_[Len(c.event_queue_)]
             c1 == Trace([c EXCEPT !.event_queue_ = SubSeq(@, 1, Len(@) - 1)],
                         [k |-> "event", type |-> event, state |-> c.current_state_,
                          current |-> c.current_state_id_, snap |-> Snap(c)])
         IN  IF c1.current_state_ # "nullptr"
             THEN Push(c1, HandleFrame(event, c1.current_state_))
             ELSE c1

processEvents(c) ==
    IF c.event_queue_ = <<>> THEN Pop(c)
    ELSE LET event == Head(c.event_queue_)
             c1 == Trace([c EXCEPT !.event_queue_ = Tail(@)],
                         [k |-> "event", type |-> event, state |-> c.current_state_,
                          current |-> c.current_state_id_, snap |-> Snap(c)])
         IN  IF c1.current_state_ # "nullptr"
             THEN Push(c1, HandleFrame(event, c1.current_state_))
             ELSE c1

\* the machine's code runs until it calls user code or returns to its caller
RECURSIVE Run(_)
Run(c) ==
    IF c.stack = <<>> \/ Top(c).f = "callback" THEN c
    ELSE Run(CASE Top(c).f = "begin" -> begin(c)
               [] Top(c).f = "update" -> update(c)
               [] Top(c).f = "transitionTo" -> transitionTo(c)
               [] Top(c).f = "processEvents" -> processEvents(c)
               [] Top(c).f = "handleEvent" -> handleEvent(c))

\* ---- the machine and its environment

Machine ==
    [current_state_id_ |-> current_state_id_, previous_state_id_ |-> previous_state_id_,
     current_state_ |-> current_state_, transitioning_ |-> transitioning_,
     event_queue_ |-> event_queue_, entry_time_ |-> entry_time_, now |-> now,
     stack |-> stack, last_ret |-> NoRet,
     trace |-> IF stack = <<>> THEN [trace EXCEPT !.log = <<>>] ELSE trace]

Nesting(c) == Cardinality({ k \in 1 .. Len(c.stack) : c.stack[k].f = "callback" })

\* the machine is left as c; time and begun are not the machine's to change
Becomes(c) ==
    /\ Nesting(c) <= MaxNesting
    /\ Len(c.trace.log) <= MaxTrace
    /\ current_state_id_' = c.current_state_id_
    /\ previous_state_id_' = c.previous_state_id_
    /\ current_state_' = c.current_state_
    /\ transitioning_' = c.transitioning_
    /\ event_queue_' = c.event_queue_
    /\ entry_time_' = c.entry_time_
    /\ stack' = c.stack
    /\ last_ret' = c.last_ret
    /\ trace' = c.trace
    /\ UNCHANGED table
    /\ UNCHANGED now
    /\ UNCHANGED codecVars
    /\ UNCHANGED parserVars
    /\ UNCHANGED audioVars

\* the main loop, or user code other than a guard, is running
CanCall ==
    IF stack = <<>> THEN TRUE
    ELSE stack[Len(stack)].f = "callback" /\ stack[Len(stack)].kind # "guard"
Caller == IF stack = <<>> THEN "main" ELSE stack[Len(stack)].kind

\* AppStateMachine(): the state after construction and the building of table t, millis()
\* reading time
ConstructedAt(t, on, time) ==
    /\ table = t
    /\ trace = [on |-> on, log |-> <<>>]
    /\ current_state_id_ = "BOOT"
    /\ previous_state_id_ = "BOOT"
    /\ current_state_ = "nullptr"
    /\ transitioning_ = FALSE
    /\ event_queue_ = <<>>
    /\ entry_time_ = [s \in Registered |-> U32(0, 0)]
    /\ now = time
    /\ stack = <<>>
    /\ begun = FALSE
    /\ last_ret = NoRet

ConstructedWith(t, on) == ConstructedAt(t, on, U32(0, 0))

Constructed == ConstructedWith("lifecycle", FALSE)

\* setup() calls begin() once, before the first update()
Begin ==
    /\ ~begun
    /\ stack = <<>>
    /\ begun' = TRUE
    /\ \E c \in { Run(Push(Machine, BeginFrame)) } : Becomes(c)

Update ==
    /\ begun
    /\ CanCall
    /\ UNCHANGED begun
    /\ \E c \in { Run(Push(Machine, ApiFrame("update", "none", Caller, Machine))) } : Becomes(c)

TransitionTo(target) ==
    /\ begun
    /\ CanCall
    /\ UNCHANGED begun
    /\ \E c \in { Run(Push(Machine, ApiFrame("transitionTo", target, Caller, Machine))) } : Becomes(c)

\* forceTransition(target) is a call of transitionTo(target) whose result is dropped
ForceTransition(target) ==
    /\ begun
    /\ CanCall
    /\ UNCHANGED begun
    /\ \E c \in { Run(Push(Machine, ApiFrame("forceTransition", target, Caller, Machine))) } : Becomes(c)

PostEvent(type) ==
    /\ CanCall
    /\ Len(event_queue_) < MaxQueue
    /\ UNCHANGED begun
    /\ \E c \in { postEvent(Machine, type) } : Becomes(c)

\* user code returns to the machine
CallbackReturn ==
    /\ stack # <<>>
    /\ stack[Len(stack)].f = "callback"
    /\ stack[Len(stack)].kind # "guard"
    /\ UNCHANGED begun
    /\ \E c \in { Run(Pop(Machine)) } : Becomes(c)

\* handleEvent taking every matching rule, whatever its guard returns
GuardReturn_resultIgnored(result) ==
    /\ stack # <<>>
    /\ stack[Len(stack)].f = "callback"
    /\ stack[Len(stack)].kind = "guard"
    /\ UNCHANGED begun
    /\ \E c \in { Run(LET c1 == Pop(Machine)
                      IN  At(Trace(c1, [k |-> "guard", rule |-> Top(c1).i,
                                        result |-> result, snap |-> Snap(c1)]), "fire")) } :
           Becomes(c)

\* a guard returns result to handleEvent
GuardReturn(result) ==
    /\ stack # <<>>
    /\ stack[Len(stack)].f = "callback"
    /\ stack[Len(stack)].kind = "guard"
    /\ UNCHANGED begun
    /\ \E c \in { Run(LET c1 == Pop(Machine)
                          c2 == Trace(c1, [k |-> "guard", rule |-> Top(c1).i,
                                           result |-> result, snap |-> Snap(c1)])
                      IN  IF result THEN At(c2, "fire")
                          ELSE SetTop(c2, [Top(c2) EXCEPT !.pc = "scan", !.i = @ + 1])) } :
           Becomes(c)

\* millis() advances
Tick ==
    /\ IF now.hi = 0 THEN now.lo < MaxTicks ELSE TRUE
    /\ now' = U32Inc(now)
    /\ last_ret' = NoRet
    /\ trace' = Machine.trace
    /\ UNCHANGED <<current_state_id_, previous_state_id_, current_state_, transitioning_,
                   event_queue_, entry_time_, stack, begun, table>>
    /\ UNCHANGED codecVars
    /\ UNCHANGED parserVars
    /\ UNCHANGED audioVars

NextMachine ==
    \/ Begin
    \/ Update
    \/ \E target \in AppState : TransitionTo(target)
    \/ \E target \in AppState : ForceTransition(target)
    \/ \E type \in AppEvent : PostEvent(type)
    \/ CallbackReturn
    \/ \E result \in BOOLEAN : GuardReturn(result)
    \/ Tick

\* ---- the machine driven as loop() drives it: update() is called from the main
\* loop only, user code posts events and returns, and the call is traced

MainUpdate ==
    /\ stack = <<>>
    /\ Update

MainPostEvent(type) ==
    /\ stack = <<>>
    /\ PostEvent(type)

\* user code called by the machine posts an event, MaxPosts times in one update()
CallbackPostEvent(type) ==
    /\ stack # <<>>
    /\ Cardinality({ i \in 1 .. Len(trace.log) : trace.log[i].k = "post" }) < MaxPosts
    /\ PostEvent(type)

\* the main loop requests a transition between two updates
MainTransitionTo(target) ==
    /\ stack = <<>>
    /\ TransitionTo(target)

NextDriven ==
    \/ Begin
    \/ MainUpdate
    \/ \E target \in AppState : MainTransitionTo(target)
    \/ \E type \in AppEvent : MainPostEvent(type)
    \/ \E type \in AppEvent : CallbackPostEvent(type)
    \/ CallbackReturn
    \/ \E result \in BOOLEAN : GuardReturn(result)
    \/ Tick

\* ---- the machine left to its timeouts: the main loop calls update(), requests
\* transitions and posts events between updates, and millis() may be about to wrap

\* millis() when the machine is constructed: 0, or two ticks before 2^32
Epochs == { U32(0, 0), U32(65535, 65534) }

NextTimeout ==
    \/ Begin
    \/ MainUpdate
    \/ \E target \in AppState : MainTransitionTo(target)
    \/ \E type \in AppEvent : MainPostEvent(type)
    \/ CallbackReturn
    \/ \E result \in BOOLEAN : GuardReturn(result)
    \/ Tick

\* ---- the machine as main.cpp sets it up and runs it

\* the events the rules of setupStateMachine() name, and one event no rule names
TableEvents ==
    {"BOOT_COMPLETE", "CONFIG_LOADED", "CONFIG_ERROR", "WIFI_CONNECTED", "WIFI_ERROR",
     "WIFI_DISCONNECTED", "GATEWAY_CONNECTED", "GATEWAY_ERROR", "GATEWAY_DISCONNECTED",
     "AUTHENTICATED", "AUTH_FAILED", "VOICE_KEY_PRESSED", "VOICE_STOPPED",
     "TEXT_SUBMITTED", "ANCIENT_MODE_TRIGGER", "AI_RESPONSE_CHUNK",
     "AI_RESPONSE_COMPLETE", "AI_ERROR", "ERROR_RECOVERED", "FORCE_RECONNECT",
     "USER_ACTIVITY"}

\* the events main.cpp posts once setup() has run: from the WebSocket callback,
\* processIncomingMessage, the keyboard callback and updateWiFiStatus
PostedEvents ==
    {"GATEWAY_CONNECTED", "GATEWAY_DISCONNECTED", "AUTHENTICATED", "AUTH_FAILED",
     "GATEWAY_ERROR", "AI_RESPONSE_COMPLETE", "AI_RESPONSE_CHUNK", "AI_ERROR",
     "VOICE_KEY_PRESSED", "ANCIENT_MODE_TRIGGER", "TEXT_SUBMITTED",
     "WIFI_CONNECTED", "WIFI_DISCONNECTED"}

\* setupStateMachine() has returned: the table is built, onStateChange registered and
\* BOOT_COMPLETE posted; begin() has not been called yet
SetupStateMachine(on) ==
    /\ table = "application"
    /\ trace = [on |-> on, log |-> <<>>]
    /\ current_state_id_ = "BOOT"
    /\ previous_state_id_ = "BOOT"
    /\ current_state_ = "nullptr"
    /\ transitioning_ = FALSE
    /\ event_queue_ = <<"BOOT_COMPLETE">>
    /\ entry_time_ = [s \in Registered |-> U32(0, 0)]
    /\ now = U32(0, 0)
    /\ stack = <<>>
    /\ begun = FALSE
    /\ last_ret = NoRet

\* a + b on uint32_t
U32Plus(a, b) ==
    LET lo == a.lo + b.lo
    IN  U32((a.hi + b.hi + lo \div 65536) % 65536, lo % 65536)

\* the longest timeout of the table
LongestTimeout == setupTimeout("ANCIENT_MODE").ms

\* loop() between two calls of update(): millis() advances by ms
Pause(ms) ==
    /\ stack = <<>>
    /\ begun
    /\ U32Ge(U32(MaxPauses * LongestTimeout.hi, 0), U32Plus(now, ms))
    /\ now' = U32Plus(now, ms)
    /\ last_ret' = NoRet
    /\ trace' = Machine.trace
    /\ UNCHANGED <<current_state_id_, previous_state_id_, current_state_, transitioning_,
                   event_queue_, entry_time_, stack, begun, table>>
    /\ UNCHANGED codecVars
    /\ UNCHANGED parserVars
    /\ UNCHANGED audioVars

\* the main loop posts an event when update() has emptied the queue
PostNext(type) ==
    /\ event_queue_ = <<>>
    /\ MainPostEvent(type)

\* every event of the table may be posted; between two updates no time goes by, or
\* every timeout of the table does
NextTable ==
    \/ Begin
    \/ MainUpdate
    \/ \E type \in TableEvents : PostNext(type)
    \/ CallbackReturn
    \/ \E ms \in {LongestTimeout} : Pause(ms)

\* the events are those main.cpp posts
NextApplication ==
    \/ Begin
    \/ MainUpdate
    \/ \E type \in PostedEvents : MainPostEvent(type)
    \/ CallbackReturn
    \/ \E ms \in {LongestTimeout} : Pause(ms)

----------------------------------------------------------------------------
\* Audio streamer (AudioStreamer): voice activity detection

VADState == {"SILENCE", "VOICE_START", "VOICE_ACTIVE", "VOICE_END"}

\* AudioStreamerConfig(): the defaults, which main.cpp runs with
AudioStreamerConfig ==
    [sample_rate |-> 16000, frame_duration_ms |-> 60, vad_threshold |-> 500,
     vad_min_duration_ms |-> 200, vad_silence_ms |-> 500, stream_queue_size |-> 10]

\* configurations on a millisecond scale: 1 ms frames of 4 samples, a queue of 2
SmallConfigs ==
    { [sample_rate |-> 4000, frame_duration_ms |-> 1, vad_threshold |-> 500,
       vad_min_duration_ms |-> m, vad_silence_ms |-> s, stream_queue_size |-> 2] :
      m \in 1 .. MaxVadMs, s \in 1 .. MaxVadMs }

VadConfigs == {AudioStreamerConfig} \cup SmallConfigs

\* what the microphone picks up under the default configuration: 300 ms of level
\* 800, then 600 ms of level 50
Utterance == [voice_ms |-> 300, voice_level |-> 800, quiet_ms |-> 600, quiet_level |-> 50]
VoiceFrames == Utterance.voice_ms \div AudioStreamerConfig.frame_duration_ms
UtteranceFrames ==
    (Utterance.voice_ms + Utterance.quiet_ms) \div AudioStreamerConfig.frame_duration_ms

\* the levels calculateRMS returns for frame k + 1: the utterance under the default
\* configuration, else a level below, at or above the threshold
Levels(config, k) ==
    IF config = AudioStreamerConfig
    THEN { IF k < VoiceFrames THEN Utterance.voice_level ELSE Utterance.quiet_level }
    ELSE {Utterance.quiet_level, config.vad_threshold, Utterance.voice_level}

\* the frames a run of the model classifies: the utterance under the default
\* configuration, MaxVadFrames frames under the millisecond ones
FrameBudget(config) == IF config = AudioStreamerConfig THEN UtteranceFrames ELSE MaxVadFrames

\* a + n on uint32_t, for n < 2^16
U32Add(a, n) ==
    IF a.lo + n > 65535 THEN U32((a.hi + 1) % 65536, a.lo + n - 65536) ELSE U32(a.hi, a.lo + n)

\* no frame has been classified yet
NoRun ==
    [above |-> FALSE, from |-> "SILENCE", first |-> U32(0, 0), last |-> U32(0, 0),
     n |-> 0, detected |-> 0, lost |-> 0]

\* the AudioStreamer object as a record
Streamer ==
    [config_ |-> config_, event_callback_ |-> event_callback_, vad_state_ |-> vad_state_,
     voice_start_time_ |-> voice_start_time_, silence_start_time_ |-> silence_start_time_,
     voice_frame_count_ |-> voice_frame_count_, total_frame_count_ |-> total_frame_count_,
     voice_events_ |-> voice_events_, millis |-> millis, events |-> <<>>,
     state_ |-> stream_state_, capture_task_ |-> capture_task_, task_pc |-> task_pc,
     raw_queue_ |-> raw_queue_, encoded_queue_ |-> encoded_queue_,
     frame_buffer_pos_ |-> frame_buffer_pos_, frames_captured_ |-> frames_captured_,
     frames_streamed_ |-> frames_streamed_, errors_ |-> errors_, fed |-> fed,
     last_frame |-> last_frame, last_call |-> last_call]

\* if (event_callback_) event_callback_(event, nullptr)
Emit(s, event) ==
    IF s.event_callback_ THEN [s EXCEPT !.events = Append(@, event)] ELSE s

\* updateVAD with the minimum-duration test of VOICE_START left out
updateVAD_noDebounce(s, rms) ==
    LET is_speech == rms > s.config_.vad_threshold
        silent == U32Ge(U32Sub(s.millis, s.silence_start_time_),
                        U32(0, s.config_.vad_silence_ms))
    IN  CASE s.vad_state_ = "SILENCE" ->
                 IF is_speech
                 THEN [s EXCEPT !.vad_state_ = "VOICE_START", !.voice_start_time_ = s.millis,
                                !.voice_frame_count_ = 0]
                 ELSE s
          [] s.vad_state_ = "VOICE_START" ->
                 IF is_speech
                 THEN Emit([s EXCEPT !.vad_state_ = "VOICE_ACTIVE", !.voice_events_ = @ + 1],
                           "VOICE_DETECTED")
                 ELSE [s EXCEPT !.vad_state_ = "SILENCE"]
          [] s.vad_state_ = "VOICE_ACTIVE" ->
                 IF ~is_speech
                 THEN [s EXCEPT !.vad_state_ = "VOICE_END", !.silence_start_time_ = s.millis]
                 ELSE [s EXCEPT !.voice_frame_count_ = @ + 1]
          [] s.vad_state_ = "VOICE_END" ->
                 IF is_speech THEN [s EXCEPT !.vad_state_ = "VOICE_ACTIVE"]
                 ELSE IF silent
                 THEN [Emit([s EXCEPT !.vad_state_ = "SILENCE"], "VOICE_LOST")
                          EXCEPT !.voice_frame_count_ = 0]
                 ELSE s

\* updateVAD with the silence test of VOICE_END left out
updateVAD_noHangover(s, rms) ==
    LET is_speech == rms > s.config_.vad_threshold
        spoken == U32Ge(U32Sub(s.millis, s.voice_start_time_),
                        U32(0, s.config_.vad_min_duration_ms))
    IN  CASE s.vad_state_ = "SILENCE" ->
                 IF is_speech
                 THEN [s EXCEPT !.vad_state_ = "VOICE_START", !.voice_start_time_ = s.millis,
                                !.voice_frame_count_ = 0]
                 ELSE s
          [] s.vad_state_ = "VOICE_START" ->
                 IF is_speech
                 THEN IF spoken
                      THEN Emit([s EXCEPT !.vad_state_ = "VOICE_ACTIVE",
                                          !.voice_events_ = @ + 1], "VOICE_DETECTED")
                      ELSE s
                 ELSE [s EXCEPT !.vad_state_ = "SILENCE"]
          [] s.vad_state_ = "VOICE_ACTIVE" ->
                 IF ~is_speech
                 THEN [s EXCEPT !.vad_state_ = "VOICE_END", !.silence_start_time_ = s.millis]
                 ELSE [s EXCEPT !.voice_frame_count_ = @ + 1]
          [] s.vad_state_ = "VOICE_END" ->
                 IF is_speech THEN [s EXCEPT !.vad_state_ = "VOICE_ACTIVE"]
                 ELSE [Emit([s EXCEPT !.vad_state_ = "SILENCE"], "VOICE_LOST")
                          EXCEPT !.voice_frame_count_ = 0]

\* updateVAD with a VOICE_DETECTED event on the resumption from VOICE_END
updateVAD_resumeReports(s, rms) ==
    LET is_speech == rms > s.config_.vad_threshold
        spoken == U32Ge(U32Sub(s.millis, s.voice_start_time_),
                        U32(0, s.config_.vad_min_duration_ms))
        silent == U32Ge(U32Sub(s.millis, s.silence_start_time_),
                        U32(0, s.config_.vad_silence_ms))
    IN  CASE s.vad_state_ = "SILENCE" ->
                 IF is_speech
                 THEN [s EXCEPT !.vad_state_ = "VOICE_START", !.voice_start_time_ = s.millis,
                                !.voice_frame_count_ = 0]
                 ELSE s
          [] s.vad_state_ = "VOICE_START" ->
                 IF is_speech
                 THEN IF spoken
                      THEN Emit([s EXCEPT !.vad_state_ = "VOICE_ACTIVE",
                                          !.voice_events_ = @ + 1], "VOICE_DETECTED")
                      ELSE s
                 ELSE [s EXCEPT !.vad_state_ = "SILENCE"]
          [] s.vad_state_ = "VOICE_ACTIVE" ->
                 IF ~is_speech
                 THEN [s EXCEPT !.vad_state_ = "VOICE_END", !.silence_start_time_ = s.millis]
                 ELSE [s EXCEPT !.voice_frame_count_ = @ + 1]
          [] s.vad_state_ = "VOICE_END" ->
                 IF is_speech
                 THEN Emit([s EXCEPT !.vad_state_ = "VOICE_ACTIVE"], "VOICE_DETECTED")
                 ELSE IF silent
                 THEN [Emit([s EXCEPT !.vad_state_ = "SILENCE"], "VOICE_LOST")
                          EXCEPT !.voice_frame_count_ = 0]
                 ELSE s

\* updateVAD(rms): the streamer after the call; vad_state_ is the value returned
\* updateVAD reporting VOICE_LOST already when the level drops, and again after the hangover
updateVAD_lostTwice(s, rms) ==
    LET is_speech == rms > s.config_.vad_threshold
        spoken == U32Ge(U32Sub(s.millis, s.voice_start_time_),
                        U32(0, s.config_.vad_min_duration_ms))
        silent == U32Ge(U32Sub(s.millis, s.silence_start_time_),
                        U32(0, s.config_.vad_silence_ms))
    IN  CASE s.vad_state_ = "SILENCE" ->
                 IF is_speech
                 THEN [s EXCEPT !.vad_state_ = "VOICE_START", !.voice_start_time_ = s.millis,
                                !.voice_frame_count_ = 0]
                 ELSE s
          [] s.vad_state_ = "VOICE_START" ->
                 IF is_speech
                 THEN IF spoken
                      THEN Emit([s EXCEPT !.vad_state_ = "VOICE_ACTIVE",
                                          !.voice_events_ = @ + 1], "VOICE_DETECTED")
                      ELSE s
                 ELSE [s EXCEPT !.vad_state_ = "SILENCE"]
          [] s.vad_state_ = "VOICE_ACTIVE" ->
                 IF ~is_speech
                 THEN Emit([s EXCEPT !.vad_state_ = "VOICE_END", !.silence_start_time_ = s.millis],
                           "VOICE_LOST")
                 ELSE [s EXCEPT !.voice_frame_count_ = @ + 1]
          [] s.vad_state_ = "VOICE_END" ->
                 IF is_speech THEN [s EXCEPT !.vad_state_ = "VOICE_ACTIVE"]
                 ELSE IF silent
                 THEN [Emit([s EXCEPT !.vad_state_ = "SILENCE"], "VOICE_LOST")
                          EXCEPT !.voice_frame_count_ = 0]
                 ELSE s

updateVAD(s, rms) ==
    LET is_speech == rms > s.config_.vad_threshold
        spoken == U32Ge(U32Sub(s.millis, s.voice_start_time_),
                        U32(0, s.config_.vad_min_duration_ms))
        silent == U32Ge(U32Sub(s.millis, s.silence_start_time_),
                        U32(0, s.config_.vad_silence_ms))
    IN  CASE s.vad_state_ = "SILENCE" ->
                 IF is_speech
                 THEN [s EXCEPT !.vad_state_ = "VOICE_START", !.voice_start_time_ = s.millis,
                                !.voice_frame_count_ = 0]
                 ELSE s
          [] s.vad_state_ = "VOICE_START" ->
                 IF is_speech
                 THEN IF spoken
                      THEN Emit([s EXCEPT !.vad_state_ = "VOICE_ACTIVE",
                                          !.voice_events_ = @ + 1], "VOICE_DETECTED")
                      ELSE s
                 ELSE [s EXCEPT !.vad_state_ = "SILENCE"]
          [] s.vad_state_ = "VOICE_ACTIVE" ->
                 IF ~is_speech
                 THEN [s EXCEPT !.vad_state_ = "VOICE_END", !.silence_start_time_ = s.millis]
                 ELSE [s EXCEPT !.voice_frame_count_ = @ + 1]
          [] s.vad_state_ = "VOICE_END" ->
                 IF is_speech THEN [s EXCEPT !.vad_state_ = "VOICE_ACTIVE"]
                 ELSE IF silent
                 THEN [Emit([s EXCEPT !.vad_state_ = "SILENCE"], "VOICE_LOST")
                          EXCEPT !.voice_frame_count_ = 0]
                 ELSE s

\* how many of the events the call reported are `event`
Count(seq, event) == Cardinality({ i \in 1 .. Len(seq) : seq[i] = event })

\* the stretch of frames on one side of the threshold, extended by the frame just
\* classified: r is the stretch so far, s the streamer before the call, u after it
Extend(r, s, u, rms) ==
    LET above == rms > s.config_.vad_threshold
        d == Count(u.events, "VOICE_DETECTED")
        l == Count(u.events, "VOICE_LOST")
    IN  IF r.n > 0 /\ r.above = above
        THEN [r EXCEPT !.last = u.millis, !.n = @ + 1, !.detected = @ + d, !.lost = @ + l]
        ELSE [above |-> above, from |-> s.vad_state_, first |-> u.millis,
              last |-> u.millis, n |-> 1, detected |-> d, lost |-> l]

\* ---- the AudioCapture object
AudioState == {"IDLE", "INITIALIZING", "CAPTURING", "PAUSED", "ERROR"}

AUDIO_QUEUE_LENGTH == 10

\* the AudioCapture object as constructed; pc is where the capture task is, frame the
\* number of the frame it holds, stop_pc where a stop() in progress is
CaptureConstructed ==
    [state_ |-> "IDLE", callback_ |-> FALSE, audio_queue_ |-> "nullptr",
     capture_task_ |-> "nullptr", frame_count_ |-> 0,
     pc |-> "none", frame |-> 0, stop_pc |-> "idle", prev_state |-> "IDLE",
     read |-> 0, discarded |-> {}, pushed |-> 0, reported |-> 0, failed |-> 0,
     others |-> <<>>]

\* nothing has been fed to processFrame, no frame has been completed
NoFeed == [samples |-> 0, frames |-> 0, dropped |-> 0]
NoFrame == [id |-> 0, vad_state |-> "none", raw |-> FALSE, encoded |-> FALSE]
NoCall == [op |-> "none", task |-> "none"]

\* AudioStreamer(): the members outside the VAD
StreamerConstructed ==
    /\ stream_state_ = "IDLE"
    /\ capture_task_ = "nullptr"
    /\ task_pc = "none"
    /\ raw_queue_ = "nullptr"
    /\ encoded_queue_ = "nullptr"
    /\ frame_buffer_pos_ = 0
    /\ frames_captured_ = 0
    /\ frames_streamed_ = 0
    /\ errors_ = 0
    /\ fed = NoFeed
    /\ last_frame = NoFrame
    /\ last_call = NoCall
    /\ capture = CaptureConstructed

InitVad ==
    /\ config_ \in VadConfigs
    /\ event_callback_ \in BOOLEAN
    /\ vad_state_ = "SILENCE"
    /\ voice_start_time_ = U32(0, 0)
    /\ silence_start_time_ = U32(0, 0)
    /\ voice_frame_count_ = 0
    /\ total_frame_count_ = 0
    /\ voice_events_ = 0
    /\ millis \in Epochs
    /\ events = <<>>
    /\ run = NoRun
    /\ before = NoRun
    /\ StreamerConstructed

AudioIdle ==
    /\ config_ = AudioStreamerConfig
    /\ event_callback_ = FALSE
    /\ vad_state_ = "SILENCE"
    /\ voice_start_time_ = U32(0, 0)
    /\ silence_start_time_ = U32(0, 0)
    /\ voice_frame_count_ = 0
    /\ total_frame_count_ = 0
    /\ voice_events_ = 0
    /\ millis = U32(0, 0)
    /\ events = <<>>
    /\ run = NoRun
    /\ before = NoRun
    /\ StreamerConstructed

\* processFrame up to its VAD step, dt ms after the previous frame: the read of a
\* frame takes its duration, the scheduler adds up to MaxJitter ms
ProcessFrameVAD(dt, rms) ==
    /\ total_frame_count_ < FrameBudget(config_)
    /\ dt \in config_.frame_duration_ms .. config_.frame_duration_ms + MaxJitter
    /\ rms \in Levels(config_, total_frame_count_)
    /\ \E s \in { [Streamer EXCEPT !.millis = U32Add(millis, dt),
                                   !.total_frame_count_ = @ + 1] } :
         \E u \in { updateVAD(s, rms) } :
            /\ vad_state_' = u.vad_state_
            /\ voice_start_time_' = u.voice_start_time_
            /\ silence_start_time_' = u.silence_start_time_
            /\ voice_frame_count_' = u.voice_frame_count_
            /\ total_frame_count_' = u.total_frame_count_
            /\ voice_events_' = u.voice_events_
            /\ millis' = u.millis
            /\ events' = u.events
            /\ run' = Extend(run, s, u, rms)
            /\ before' = IF Extend(run, s, u, rms).n > 1 THEN before ELSE run
    /\ UNCHANGED <<config_, event_callback_>>
    /\ UNCHANGED streamVars
    /\ UNCHANGED capture
    /\ UNCHANGED codecVars
    /\ UNCHANGED parserVars
    /\ UNCHANGED smVars

NextVad ==
    \E dt \in 1 .. AudioStreamerConfig.frame_duration_ms + MaxJitter :
        \E rms \in Levels(config_, total_frame_count_) : ProcessFrameVAD(dt, rms)

----------------------------------------------------------------------------
\* Audio streamer (AudioStreamer): frame assembly, queues and the capture task

AudioStreamState == {"IDLE", "INITIALIZING", "STREAMING", "PAUSED", "ERROR"}

\* (config_.sample_rate * config_.frame_duration_ms) / 1000
frame_samples(config) == (config.sample_rate * config.frame_duration_ms) \div 1000

\* the configurations the capture task is followed under
StreamConfigs ==
    { c \in SmallConfigs : c.vad_min_duration_ms = 1 /\ c.vad_silence_ms = 1 }

\* xQueueSend(queue, &item, pdMS_TO_TICKS(10)) returns pdTRUE iff the queue has room
\* before the wait is over; a consumer that makes room during the wait is a dequeue
\* that comes before the send
HasRoom(queue, config) == Len(queue) < config.stream_queue_size

\* encodeAndQueue(samples, count, is_final) for the frame numbered total_frame_count_
encodeAndQueue(s, count, is_final) ==
    IF HasRoom(s.encoded_queue_, s.config_)
    THEN Emit([s EXCEPT !.encoded_queue_ =
                            Append(@, [id |-> s.total_frame_count_, is_final |-> is_final]),
                        !.frames_streamed_ = @ + 1,
                        !.last_frame.encoded = TRUE],
              "ENCODED_PACKET_READY")
    ELSE s

\* processFrame(samples, count), rms being the level of the count samples
processFrame(s, count, rms) ==
    LET N == frame_samples(s.config_)
        s1 == updateVAD([s EXCEPT !.total_frame_count_ = @ + 1,
                                  !.last_frame = NoFrame,
                                  !.fed.samples = @ + count], rms)
        s2 == IF s1.frame_buffer_pos_ + count <= N
              THEN [s1 EXCEPT !.frame_buffer_pos_ = @ + count]
              ELSE [s1 EXCEPT !.fed.dropped = @ + count]
        voiced == s2.vad_state_ \in {"VOICE_ACTIVE", "VOICE_END"}
        s3 == [s2 EXCEPT !.fed.frames = @ + 1,
                         !.last_frame = [id |-> s2.total_frame_count_,
                                         vad_state |-> s2.vad_state_,
                                         raw |-> FALSE, encoded |-> FALSE]]
        s4 == IF voiced /\ HasRoom(s3.raw_queue_, s3.config_)
              THEN encodeAndQueue(
                       [s3 EXCEPT !.raw_queue_ = Append(@, [id |-> s3.total_frame_count_,
                                                           vad_state |-> s3.vad_state_]),
                                  !.frames_captured_ = @ + 1,
                                  !.last_frame.raw = TRUE],
                       N, s3.vad_state_ = "VOICE_END")
              ELSE s3
    IN  IF s2.frame_buffer_pos_ >= N THEN [s4 EXCEPT !.frame_buffer_pos_ = 0] ELSE s2

\* the streamer becomes s; its configuration and callback stay
StreamerIs(s) ==
    /\ vad_state_' = s.vad_state_
    /\ voice_start_time_' = s.voice_start_time_
    /\ silence_start_time_' = s.silence_start_time_
    /\ voice_frame_count_' = s.voice_frame_count_
    /\ total_frame_count_' = s.total_frame_count_
    /\ voice_events_' = s.voice_events_
    /\ millis' = s.millis
    /\ events' = s.events
    /\ stream_state_' = s.state_
    /\ capture_task_' = s.capture_task_
    /\ task_pc' = s.task_pc
    /\ raw_queue_' = s.raw_queue_
    /\ encoded_queue_' = s.encoded_queue_
    /\ frame_buffer_pos_' = s.frame_buffer_pos_
    /\ frames_captured_' = s.frames_captured_
    /\ frames_streamed_' = s.frames_streamed_
    /\ errors_' = s.errors_
    /\ fed' = s.fed
    /\ last_frame' = s.last_frame
    /\ last_call' = s.last_call
    /\ UNCHANGED <<config_, event_callback_, run, before, capture>>
    /\ UNCHANGED codecVars
    /\ UNCHANGED parserVars
    /\ UNCHANGED smVars

\* begin(config) has returned true: the queues exist and are empty
InitStreamer ==
    /\ config_ \in StreamConfigs
    /\ event_callback_ \in BOOLEAN
    /\ vad_state_ = "SILENCE"
    /\ voice_start_time_ = U32(0, 0)
    /\ silence_start_time_ = U32(0, 0)
    /\ voice_frame_count_ = 0
    /\ total_frame_count_ = 0
    /\ voice_events_ = 0
    /\ millis = U32(0, 0)
    /\ events = <<>>
    /\ run = NoRun
    /\ before = NoRun
    /\ stream_state_ = "IDLE"
    /\ capture_task_ = "nullptr"
    /\ task_pc = "none"
    /\ raw_queue_ = <<>>
    /\ encoded_queue_ = <<>>
    /\ frame_buffer_pos_ = 0
    /\ frames_captured_ = 0
    /\ frames_streamed_ = 0
    /\ errors_ = 0
    /\ fed = NoFeed
    /\ last_frame = NoFrame
    /\ last_call = NoCall
    /\ capture = CaptureConstructed

\* the main context is between two calls of the streamer's API
MainContextFree == last_call.op # "stopping"

\* begin(config_) after end(): the queues are created again
StreamerBegin ==
    /\ MainContextFree
    /\ raw_queue_ = "nullptr"
    /\ StreamerIs([Streamer EXCEPT !.raw_queue_ = <<>>, !.encoded_queue_ = <<>>,
                                   !.frame_buffer_pos_ = 0, !.state_ = "IDLE",
                                   !.last_call = [op |-> "begin", task |-> @.task]])

\* start(); setupI2S and the creation of the task succeed
StreamerStart ==
    /\ MainContextFree
    /\ raw_queue_ # "nullptr"
    /\ stream_state_ # "STREAMING"
    /\ \E s \in { IF capture_task_ = "nullptr"
                  THEN [Streamer EXCEPT !.capture_task_ = "task", !.task_pc = "loop"]
                  ELSE Streamer } :
          StreamerIs(Emit([s EXCEPT !.state_ = "STREAMING",
                                    !.last_call = [op |-> "start", task |-> "none"]],
                          "STREAM_STARTED"))

\* stopCaptureTask(): the task is deleted through its handle, wherever it is; if it
\* has left captureLoop and deleted itself the handle is a stale one
stopCaptureTask(s) ==
    IF s.capture_task_ # "nullptr"
    THEN [s EXCEPT !.capture_task_ = "nullptr",
                   !.task_pc = "deleted",
                   !.last_call.task = IF s.task_pc = "exited" THEN "stale handle deleted"
                                      ELSE "deleted in " \o s.task_pc]
    ELSE s

\* stop() up to state_ = IDLE
StreamerStopFlag ==
    /\ MainContextFree
    /\ stream_state_ # "IDLE"
    /\ StreamerIs([Streamer EXCEPT !.state_ = "IDLE",
                                   !.last_call = [op |-> "stopping", task |-> "none"]])

\* stop() from stopCaptureTask() on
StreamerStopTask ==
    /\ last_call.op = "stopping"
    /\ StreamerIs(Emit([stopCaptureTask(Streamer) EXCEPT !.last_call.op = "stop"],
                       "STREAM_STOPPED"))

\* end(): stop(), then the queues are destroyed
StreamerEnd ==
    /\ MainContextFree
    /\ raw_queue_ # "nullptr"
    /\ \E s \in { IF stream_state_ = "IDLE" THEN Streamer
                  ELSE Emit(stopCaptureTask([Streamer EXCEPT !.state_ = "IDLE",
                                                !.last_call = [op |-> "stop", task |-> "none"]]),
                            "STREAM_STOPPED") } :
          StreamerIs([s EXCEPT !.raw_queue_ = "nullptr", !.encoded_queue_ = "nullptr",
                               !.state_ = "IDLE", !.last_call.op = "end"])

StreamerPause ==
    /\ MainContextFree
    /\ stream_state_ = "STREAMING"
    /\ StreamerIs([Streamer EXCEPT !.state_ = "PAUSED",
                                   !.last_call = [op |-> "pause", task |-> "none"]])

StreamerResume ==
    /\ MainContextFree
    /\ stream_state_ = "PAUSED"
    /\ StreamerIs([Streamer EXCEPT !.state_ = "STREAMING",
                                   !.last_call = [op |-> "resume", task |-> "none"]])

\* captureLoop: the test of the while loop; a paused task sleeps and tests again
CaptureLoopCheck ==
    /\ task_pc = "loop"
    /\ stream_state_ # "PAUSED"
    /\ StreamerIs([Streamer EXCEPT !.task_pc = IF stream_state_ = "STREAMING" THEN "read"
                                               ELSE "exited"])

\* captureLoop: i2s_read returns dt ms later, with a whole frame of level rms or
\* with an error or a short read, and the iteration runs to its end
CaptureLoopRead(ok, dt, rms) ==
    /\ task_pc = "read"
    /\ dt \in config_.frame_duration_ms .. config_.frame_duration_ms + MaxJitter
    /\ rms \in Levels(config_, total_frame_count_)
    /\ IF ok THEN total_frame_count_ < MaxStreamFrames ELSE errors_ < MaxErrors
    /\ \E s \in { [Streamer EXCEPT !.millis = U32Add(millis, dt), !.task_pc = "loop"] } :
          StreamerIs(IF ok THEN processFrame(s, frame_samples(config_), rms)
                     ELSE [s EXCEPT !.errors_ = @ + 1])

\* readFrame(frame) returns true
ReadFrame ==
    /\ MainContextFree
    /\ raw_queue_ # "nullptr"
    /\ raw_queue_ # <<>>
    /\ StreamerIs([Streamer EXCEPT !.raw_queue_ = Tail(@)])

\* readEncodedPacket(packet) returns true
ReadEncodedPacket ==
    /\ MainContextFree
    /\ encoded_queue_ # "nullptr"
    /\ encoded_queue_ # <<>>
    /\ StreamerIs([Streamer EXCEPT !.encoded_queue_ = Tail(@)])

NextStreamer ==
    \/ StreamerBegin
    \/ StreamerStart
    \/ StreamerStopFlag
    \/ StreamerStopTask
    \/ StreamerEnd
    \/ StreamerPause
    \/ StreamerResume
    \/ CaptureLoopCheck
    \/ \E ok \in BOOLEAN : \E dt \in 1 .. 1 + MaxJitter :
          \E rms \in Levels(config_, total_frame_count_) : CaptureLoopRead(ok, dt, rms)
    \/ ReadFrame
    \/ ReadEncodedPacket

\* ---- frame assembly fed chunk by chunk

\* processFrame(samples, count) with a chunk of 1 to N samples
ProcessChunk(count, rms) ==
    /\ fed.samples + count <= MaxFed
    /\ count \in 1 .. frame_samples(config_)
    /\ \E s \in { [Streamer EXCEPT !.millis = U32Add(millis, config_.frame_duration_ms)] } :
          StreamerIs(processFrame(s, count, rms))

NextAssembly ==
    \/ \E count \in 1 .. MaxFed : \E rms \in Levels(config_, total_frame_count_) :
          ProcessChunk(count, rms)
    \/ ReadFrame
    \/ ReadEncodedPacket

----------------------------------------------------------------------------
\* Audio capture (AudioCapture): the capture task, its queue and stop()

\* the steps of the capture object leave everything else alone
CaptureOnly ==
    /\ UNCHANGED <<vadVars, streamVars>>
    /\ UNCHANGED codecVars
    /\ UNCHANGED parserVars
    /\ UNCHANGED smVars

\* begin(config) has returned true and setCallback may have been called
InitCapture ==
    capture \in { [CaptureConstructed EXCEPT !.state_ = "INITIALIZING",
                                             !.audio_queue_ = <<>>,
                                             !.callback_ = cb] : cb \in BOOLEAN }

\* start(): the new task either makes its first loop test after state_ = CAPTURING,
\* or (early) before it, finds INITIALIZING and leaves. A start() is made when no
\* task of an earlier start() is alive.
CaptureStart(early) ==
    /\ CaptureOnly
    /\ capture.stop_pc = "idle"
    /\ capture.state_ = "INITIALIZING"
    /\ capture.pc \in {"none", "exited"}
    /\ capture' = [capture EXCEPT !.capture_task_ = "task",
                                  !.pc = IF early THEN "exited" ELSE "loop",
                                  !.state_ = "CAPTURING"]

CapturePause ==
    /\ CaptureOnly
    /\ capture.stop_pc = "idle"
    /\ capture.state_ = "CAPTURING"
    /\ capture' = [capture EXCEPT !.state_ = "PAUSED"]

CaptureResume ==
    /\ CaptureOnly
    /\ capture.stop_pc = "idle"
    /\ capture.state_ = "PAUSED"
    /\ capture' = [capture EXCEPT !.state_ = "CAPTURING"]

\* stop() up to the vTaskDelay of stopTask()
CaptureStopFlag ==
    /\ CaptureOnly
    /\ capture.stop_pc = "idle"
    /\ capture.state_ \in {"CAPTURING", "PAUSED"}
    /\ capture' = IF capture.capture_task_ # "nullptr"
                  THEN [capture EXCEPT !.prev_state = capture.state_, !.state_ = "IDLE",
                                       !.stop_pc = "waiting"]
                  ELSE [capture EXCEPT !.state_ = "INITIALIZING"]

\* stopTask() after its 100 ms: capture_task_ = nullptr; state_ = prev_state
CaptureStopRestore ==
    /\ CaptureOnly
    /\ capture.stop_pc = "waiting"
    /\ capture' = [capture EXCEPT !.capture_task_ = "nullptr",
                                  !.state_ = capture.prev_state,
                                  !.stop_pc = "restored"]

\* stop() after stopTask(): state_ = INITIALIZING
CaptureStopReturn ==
    /\ CaptureOnly
    /\ capture.stop_pc = "restored"
    /\ capture' = [capture EXCEPT !.state_ = "INITIALIZING", !.stop_pc = "idle"]

\* captureLoop: the test of the while loop; a paused task sleeps and tests again
CaptureTaskCheck ==
    /\ CaptureOnly
    /\ capture.pc = "loop"
    /\ capture.state_ # "PAUSED"
    /\ capture' = [capture EXCEPT !.pc = IF capture.state_ = "CAPTURING" THEN "read"
                                         ELSE "exited"]

\* captureLoop: i2s_read returns an error, no bytes, or a frame, which processFrame
\* then prepares for the queue
CaptureTaskRead(outcome) ==
    /\ CaptureOnly
    /\ capture.pc = "read"
    /\ outcome \in {"error", "empty", "frame"}
    /\ outcome = "error" => capture.failed < MaxErrors
    /\ outcome = "frame" => capture.read < MaxCaptureFrames
    /\ capture' =
          CASE outcome = "error" ->
                  [capture EXCEPT !.pc = "loop", !.failed = @ + 1,
                                  !.reported = IF capture.callback_ THEN @ + 1 ELSE @]
            [] outcome = "empty" -> [capture EXCEPT !.pc = "loop"]
            [] outcome = "frame" ->
                  [capture EXCEPT !.pc = "send", !.read = @ + 1, !.frame = capture.read + 1]

\* captureLoop: xQueueSend(audio_queue_, &frame, 0); when it succeeds the callback is
\* notified and frame_count_ incremented
CaptureTaskSend ==
    /\ CaptureOnly
    /\ capture.pc = "send"
    /\ capture' = IF Len(capture.audio_queue_) < AUDIO_QUEUE_LENGTH
                  THEN [capture EXCEPT !.audio_queue_ = Append(@, capture.frame),
                                       !.pushed = capture.frame,
                                       !.frame_count_ = @ + 1, !.pc = "loop"]
                  ELSE [capture EXCEPT !.pc = "drop"]

\* captureLoop: xQueueReceive(audio_queue_, &dropped, 0) after the send has failed
CaptureTaskDrop ==
    /\ CaptureOnly
    /\ capture.pc = "drop"
    /\ capture' = IF capture.audio_queue_ # <<>>
                  THEN [capture EXCEPT !.audio_queue_ = Tail(@),
                                       !.discarded = @ \cup {Len(capture.audio_queue_)},
                                       !.pc = "resend"]
                  ELSE [capture EXCEPT !.pc = "resend"]

\* captureLoop: the second xQueueSend(audio_queue_, &frame, 0), then the callback and
\* frame_count_++
CaptureTaskResend ==
    /\ CaptureOnly
    /\ capture.pc = "resend"
    /\ capture' = IF Len(capture.audio_queue_) < AUDIO_QUEUE_LENGTH
                  THEN [capture EXCEPT !.audio_queue_ = Append(@, capture.frame),
                                       !.pushed = capture.frame,
                                       !.frame_count_ = @ + 1, !.pc = "loop"]
                  ELSE [capture EXCEPT !.frame_count_ = @ + 1, !.pc = "loop"]

\* readFrame(frame, timeout_ms) returns true; the queue exists since begin()
CaptureReadFrame ==
    /\ CaptureOnly
    /\ capture.stop_pc = "idle"
    /\ capture.audio_queue_ # <<>>
    /\ capture' = [capture EXCEPT !.audio_queue_ = Tail(@)]

NextCapture ==
    \/ \E early \in BOOLEAN : CaptureStart(early)
    \/ CapturePause
    \/ CaptureResume
    \/ CaptureStopFlag
    \/ CaptureStopRestore
    \/ CaptureStopReturn
    \/ CaptureTaskCheck
    \/ \E outcome \in {"error", "empty", "frame"} : CaptureTaskRead(outcome)
    \/ CaptureTaskSend
    \/ CaptureTaskDrop
    \/ CaptureTaskResend
    \/ CaptureReadFrame

----------------------------------------------------------------------------
\* Audio capture (AudioCapture): every task startTask() creates

\* Capture tasks run the same captureLoop on the same object and differ only in
\* their position: capture.pc is the position of the task CaptureStart creates,
\* capture.others the positions of the tasks CaptureStartAny creates.
alive(c) == c.pc \notin {"none", "exited"}

\* the tasks that exist: created by xTaskCreatePinnedToCore and not yet at the
\* vTaskDelete(nullptr) of captureTask
captureTasks(c) == (IF alive(c) THEN 1 ELSE 0) + Len(c.others)

\* a sequence without its i-th element
Without(seq, i) == SubSeq(seq, 1, i - 1) \o SubSeq(seq, i + 1, Len(seq))

\* start(): state_ is INITIALIZING or PAUSED; startTask() creates a task whatever
\* capture_task_ holds and stores its handle there; state_ = CAPTURING. The new
\* task makes its first loop test after that assignment or (early) before it.
CaptureStartAny(early) ==
    /\ CaptureOnly
    /\ capture.stop_pc = "idle"
    /\ capture.state_ \in {"INITIALIZING", "PAUSED"}
    /\ captureTasks(capture) < MaxTasks
    /\ \E leaves \in { early /\ capture.state_ = "INITIALIZING" } :
          capture' = [capture EXCEPT
                         !.capture_task_ = "task", !.state_ = "CAPTURING",
                         !.others = IF leaves THEN @ ELSE Append(@, "loop")]

\* captureLoop of a task of capture.others: the test of the while loop; a paused
\* task sleeps and tests again, a task that leaves the loop deletes itself
OtherTaskCheck(i) ==
    /\ CaptureOnly
    /\ i \in 1 .. Len(capture.others)
    /\ capture.others[i] = "loop"
    /\ capture.state_ # "PAUSED"
    /\ capture' = IF capture.state_ = "CAPTURING"
                  THEN [capture EXCEPT !.others[i] = "read"]
                  ELSE [capture EXCEPT !.others = Without(@, i)]

\* captureLoop of a task of capture.others, from i2s_read to frame_count_++: an
\* error, no bytes, or a frame that is sent to audio_queue_, the oldest frame
\* being received first when the queue is full
OtherTaskRead(i, outcome) ==
    /\ CaptureOnly
    /\ i \in 1 .. Len(capture.others)
    /\ capture.others[i] = "read"
    /\ outcome \in {"error", "empty", "frame"}
    /\ outcome = "error" => capture.failed < MaxErrors
    /\ outcome = "frame" => capture.read < MaxCaptureFrames
    /\ capture' =
          CASE outcome = "error" ->
                  [capture EXCEPT !.others[i] = "loop", !.failed = @ + 1,
                                  !.reported = IF capture.callback_ THEN @ + 1 ELSE @]
            [] outcome = "empty" -> [capture EXCEPT !.others[i] = "loop"]
            [] outcome = "frame" ->
                  [capture EXCEPT
                      !.others[i] = "loop", !.read = @ + 1,
                      !.audio_queue_ =
                          IF Len(@) < AUDIO_QUEUE_LENGTH
                          THEN Append(@, capture.read + 1)
                          ELSE Append(Tail(@), capture.read + 1),
                      !.discarded = IF Len(capture.audio_queue_) < AUDIO_QUEUE_LENGTH
                                    THEN @ ELSE @ \cup {Len(capture.audio_queue_)},
                      !.pushed = capture.read + 1,
                      !.frame_count_ = @ + 1]

NextProducers ==
    \/ \E early \in BOOLEAN : CaptureStartAny(early)
    \/ CapturePause
    \/ CaptureResume
    \/ CaptureStopFlag
    \/ CaptureStopRestore
    \/ CaptureStopReturn
    \/ \E i \in 1 .. MaxTasks : OtherTaskCheck(i)
    \/ \E i \in 1 .. MaxTasks, outcome \in {"error", "empty", "frame"} :
          OtherTaskRead(i, outcome)

-----------------------------------------------------------------------------

\* Wire codec: a serialized frame with one bit flipped

\* byte with bit b (0 the least significant) inverted
FlipBitOf(byte, b) ==
    IF (byte \div (2 ^ b)) % 2 = 1 THEN byte - 2 ^ b ELSE byte + 2 ^ b

\* the two CRC bytes serialize appends to m
FooterOf(m) ==
    LET bytes == serialize(m, getTotalSize(m)).bytes
    IN  SubSeq(bytes, Len(bytes) - PROTOCOL_FOOTER_SIZE + 1, Len(bytes))

\* the messages serialized: TEXT messages with payloads over CodecBytes, and those
\* whose two payload bytes are the bytes an empty message carries as its CRC
FlipMessages ==
    { Message(TEXT, f, p, ts) :
        f \in Flags, ts \in Timestamps,
        p \in UNION { [1 .. n -> CodecBytes] : n \in 0 .. MaxPayloadLen } }
    \cup
    { Message(TEXT, f, FooterOf(Message(TEXT, f, <<>>, ts)), ts) :
        f \in Flags, ts \in Timestamps }

InitFlip ==
    /\ msg \in FlipMessages
    /\ given = msg.payload_
    /\ wire = <<>>
    /\ decoded = EmptyMessage
    /\ codec_pc = "start"

\* the transport inverts bit b of byte i of the frame, a header or payload byte
FlipBit(i, b) ==
    /\ codec_pc = "serialized"
    /\ i \in 1 .. Len(wire) - PROTOCOL_FOOTER_SIZE
    /\ b \in 0 .. 7
    /\ wire' = [wire EXCEPT ![i] = FlipBitOf(@, b)]
    /\ codec_pc' = "flipped"
    /\ UNCHANGED <<msg, decoded, given>>
    /\ UNCHANGED parserVars
    /\ UNCHANGED smVars
    /\ UNCHANGED audioVars

\* deserialize(wire, length) of the altered frame on a default-constructed message
DeserializeFlipped ==
    /\ codec_pc = "flipped"
    /\ \E d \in { deserialize(decoded, wire, Len(wire)) } :
           /\ decoded' = d.msg
           /\ codec_pc' = IF d.ok THEN "accepted" ELSE "refused"
    /\ UNCHANGED <<msg, wire, given>>
    /\ UNCHANGED parserVars
    /\ UNCHANGED smVars
    /\ UNCHANGED audioVars

NextFlip ==
    \/ Serialize
    \/ \E i \in 1 .. PROTOCOL_HEADER_SIZE + MaxPayloadLen : \E b \in 0 .. 7 : FlipBit(i, b)
    \/ DeserializeFlipped

----------------------------------------------------------------------------
\* Encoding: a message is constructed, given its payload with setPayload, serialized

MaxOversize == 3        \* bytes handed to setPayload beyond PROTOCOL_MAX_PAYLOAD_SIZE

\* the lengths of the data handed to setPayload: empty, one byte, around the maximum
EncodeLengths ==
    (0 .. 1) \cup (PROTOCOL_MAX_PAYLOAD_SIZE - 1 .. PROTOCOL_MAX_PAYLOAD_SIZE + MaxOversize)

\* ProtocolMessage(type, nullptr, 0), its flags and timestamp set; the payload not yet
InitEncode ==
    /\ msg \in { Message(t, f, <<>>, ts) :
                   t \in {PING, TEXT}, f \in Flags, ts \in {U32(0, 0), U32(4660, 22136)} }
    /\ given \in { Payload(n) : n \in EncodeLengths }
    /\ wire = <<>>
    /\ decoded = EmptyMessage
    /\ codec_pc = "constructed"

\* msg.setPayload(data, length)
SetPayload ==
    /\ codec_pc = "constructed"
    /\ msg' = setPayload(msg, given, Len(given))
    /\ codec_pc' = "start"
    /\ UNCHANGED <<wire, decoded, given>>
    /\ UNCHANGED parserVars
    /\ UNCHANGED smVars
    /\ UNCHANGED audioVars

NextEncode == SetPayload \/ Serialize \/ Deserialize

----------------------------------------------------------------------------
\* Decoding: deserialize is called, on a message object in use, with what a transport
\* made of a frame

\* the message object deserialize is called on: it holds an earlier message
Target == Message(PING, FINAL, <<1, 2>>, U32(1, 2))

DecodeMessages ==
    { Message(TEXT, NONE, p, ts) :
        ts \in {U32(0, 0), U32(4660, 22136)},
        p \in UNION { [1 .. n -> CodecBytes] : n \in 0 .. MaxPayloadLen } }

InitDecode ==
    /\ msg \in DecodeMessages
    /\ given = msg.payload_
    /\ wire = <<>>
    /\ decoded = Target
    /\ codec_pc = "start"

\* the buffers a transport hands over for a frame: a prefix of it (the whole frame
\* included), the frame with one byte replaced, the frame followed by one more byte
Received(frame) ==
    { SubSeq(frame, 1, n) : n \in 0 .. Len(frame) }
    \cup { [frame EXCEPT ![i] = v] :
             i \in 1 .. Len(frame), v \in {0, PROTOCOL_VERSION, PROTOCOL_MAGIC, 255} }
    \cup { Append(frame, v) : v \in {0, 255} }

Receive ==
    /\ codec_pc = "serialized"
    /\ wire' \in Received(wire)
    /\ codec_pc' = "received"
    /\ UNCHANGED <<msg, decoded, given>>
    /\ UNCHANGED parserVars
    /\ UNCHANGED smVars
    /\ UNCHANGED audioVars

\* decoded.deserialize(wire, length)
DeserializeReceived ==
    /\ codec_pc = "received"
    /\ \E d \in { deserialize(decoded, wire, Len(wire)) } :
           /\ decoded' = d.msg
           /\ codec_pc' = IF d.ok THEN "decoded" ELSE "rejected"
    /\ UNCHANGED <<msg, wire, given>>
    /\ UNCHANGED parserVars
    /\ UNCHANGED smVars
    /\ UNCHANGED audioVars

NextDecode == Serialize \/ Receive \/ DeserializeReceived

----------------------------------------------------------------------------
\* Specifications

CodecStart == InitCodec /\ ParserIdle /\ Constructed /\ AudioIdle
SpecCodec == CodecStart /\ [][NextCodec]_vars

ParserStart == InitParser /\ CodecIdle /\ Constructed /\ AudioIdle
SpecParser == ParserStart /\ [][NextParser]_vars

OverflowStart == InitOverflow /\ CodecIdle /\ Constructed /\ AudioIdle
SpecOverflow == OverflowStart /\ [][NextOverflow]_vars

MachineStart == Constructed /\ CodecIdle /\ ParserIdle /\ AudioIdle
SpecMachine == MachineStart /\ [][NextMachine]_vars

DrivenStart == (\E t \in Tables : ConstructedWith(t, TRUE)) /\ CodecIdle /\ ParserIdle /\ AudioIdle
SpecDriven == DrivenStart /\ [][NextDriven]_vars

TimeoutStart ==
    /\ \E t \in Tables : \E time \in Epochs : ConstructedAt(t, TRUE, time)
    /\ CodecIdle
    /\ ParserIdle
    /\ AudioIdle
SpecTimeout == TimeoutStart /\ [][NextTimeout]_vars

TableStart == SetupStateMachine(TRUE) /\ CodecIdle /\ ParserIdle /\ AudioIdle
SpecTable == TableStart /\ [][NextTable]_vars

ApplicationStart == SetupStateMachine(FALSE) /\ CodecIdle /\ ParserIdle /\ AudioIdle
SpecApplication == ApplicationStart /\ [][NextApplication]_vars

\* setup() calls begin(); loop() keeps calling update(): whenever the main loop is
\* between two calls again and again, update() runs again and again; and the
\* callbacks of the application return
FairApplication ==
    /\ SpecApplication
    /\ WF_vars(Begin)
    /\ []<>~(begun /\ stack = <<>>) \/ []<><<MainUpdate>>_vars
    /\ []<>(stack = <<>>) \/ []<><<CallbackReturn>>_vars

VadStart == InitVad /\ CodecIdle /\ ParserIdle /\ Constructed
SpecVad == VadStart /\ [][NextVad]_vars

StreamerBegun == InitStreamer /\ CodecIdle /\ ParserIdle /\ Constructed
SpecStreamer == StreamerBegun /\ [][NextStreamer]_vars

AssemblyStart == InitStreamer /\ CodecIdle /\ ParserIdle /\ Constructed
SpecAssembly == AssemblyStart /\ [][NextAssembly]_vars

\* the streamer is constructed and left alone
StreamerIdle ==
    /\ config_ = AudioStreamerConfig
    /\ event_callback_ = FALSE
    /\ vad_state_ = "SILENCE"
    /\ voice_start_time_ = U32(0, 0)
    /\ silence_start_time_ = U32(0, 0)
    /\ voice_frame_count_ = 0
    /\ total_frame_count_ = 0
    /\ voice_events_ = 0
    /\ millis = U32(0, 0)
    /\ events = <<>>
    /\ run = NoRun
    /\ before = NoRun
    /\ stream_state_ = "IDLE"
    /\ capture_task_ = "nullptr"
    /\ task_pc = "none"
    /\ raw_queue_ = "nullptr"
    /\ encoded_queue_ = "nullptr"
    /\ frame_buffer_pos_ = 0
    /\ frames_captured_ = 0
    /\ frames_streamed_ = 0
    /\ errors_ = 0
    /\ fed = NoFeed
    /\ last_frame = NoFrame
    /\ last_call = NoCall

CaptureBegun == InitCapture /\ StreamerIdle /\ CodecIdle /\ ParserIdle /\ Constructed
SpecCapture == CaptureBegun /\ [][NextCapture]_vars
SpecProducers == CaptureBegun /\ [][NextProducers]_vars

FlipStart == InitFlip /\ ParserIdle /\ Constructed /\ AudioIdle
SpecFlip == FlipStart /\ [][NextFlip]_vars

EncodeStart == InitEncode /\ ParserIdle /\ Constructed /\ AudioIdle
SpecEncode == EncodeStart /\ [][NextEncode]_vars

DecodeStart == InitDecode /\ ParserIdle /\ Constructed /\ AudioIdle
SpecDecode == DecodeStart /\ [][NextDecode]_vars

----------------------------------------------------------------------------
\* Claims about the wire codec and the reassembler

\* what deserialize makes of a frame's bytes, on a default-constructed message
Decoded(frame) == deserialize(EmptyMessage, frame.bytes, Len(frame.bytes)).msg

\* offset of the first byte after frame k of the stream
RECURSIVE FrameEnd(_)
FrameEnd(k) ==
    IF k = 0 THEN Len(scenario.garbage) ELSE FrameEnd(k - 1) + Len(scenario.frames[k].bytes)

NFrames == Len(scenario.frames)
AllFed == pos = Len(Stream)
Synced == state_ = "WAITING_MAGIC" /\ buffer_pos_ = 0 /\ buffer_ = <<>>

\* C1: round trip. serialize(m) into a large-enough buffer followed by deserialize of
\* the bytes produced succeeds and yields type, flags, payload and timestamp of m.
C1_RoundTrip ==
    /\ codec_pc # "rejected"
    /\ codec_pc = "decoded" =>
          /\ decoded.type_ = msg.type_
          /\ decoded.flags_ = msg.flags_
          /\ decoded.payload_ = msg.payload_
          /\ decoded.timestamp_ = msg.timestamp_

\* C2: chunking invariance. One valid frame fed to a fresh parser, in one feed() call or
\* split in any way, has emitted exactly one message once its last byte is fed, and that
\* message is the decoded frame whatever the split.
C2_ChunkingInvariance ==
    (scenario.garbage = <<>> /\ NFrames = 1 /\ scenario.frames[1].kind = "valid" /\ AllFed)
        => emitted = << Decoded(scenario.frames[1]) >>

\* C3: feed() loses no frame. When the bytes fed are k valid frames back to back, k
\* messages are emitted in stream order, also when a frame is followed by further bytes
\* in the same feed() call. Stated for frames of at least two payload bytes, where the
\* late completion of shorter frames (C2) plays no part.
C3_NoFrameLost ==
    ( /\ scenario.garbage = <<>>
      /\ \A k \in 1 .. NFrames :
            scenario.frames[k].kind = "valid" /\ Len(scenario.frames[k].m.payload_) >= 2
      /\ AllFed )
        => emitted = [k \in 1 .. NFrames |-> Decoded(scenario.frames[k])]

\* C4: resync. N >= 1 garbage bytes, none the magic byte, leave the parser in
\* WAITING_MAGIC with an empty buffer and no message; the valid frame that follows is
\* emitted, exactly once.
C4_Resync ==
    (Len(scenario.garbage) >= 1 /\ NFrames = 1 /\ scenario.frames[1].kind = "valid")
        => /\ pos = FrameEnd(0) => (Synced /\ emitted = <<>>)
           /\ AllFed => emitted = << Decoded(scenario.frames[1]) >>

\* C5: a checksum failure costs exactly one frame. Once the last byte of a frame with a
\* bad checksum is fed the parser has emitted nothing and is in WAITING_MAGIC with an
\* empty buffer, and the valid frame fed right after it is emitted.
C5_ChecksumFailureCostsOneFrame ==
    ( /\ scenario.garbage = <<>> /\ NFrames = 2
      /\ scenario.frames[1].kind = "corrupt" /\ scenario.frames[2].kind = "valid" )
        => /\ pos = FrameEnd(1) => (Synced /\ emitted = <<>>)
           /\ AllFed => emitted = << Decoded(scenario.frames[2]) >>

\* C6: a header declaring more than PROTOCOL_MAX_PAYLOAD_SIZE payload bytes is rejected
\* when the header is complete: from its tenth byte on the parser is in WAITING_MAGIC and
\* holds no byte of that frame.
C6_OversizeRejectedAtHeader ==
    ( /\ scenario.frames # <<>> /\ scenario.frames[1].kind = "oversize"
      /\ pos >= FrameEnd(0) + 10 /\ pos <= FrameEnd(1) )
        => Synced

\* C7: overflow policy. No byte is ever stored at an index outside buffer_: the write
\* index stays below PROTOCOL_MAX_MESSAGE_SIZE; the bytes of an unfinished frame are
\* accumulated until they fill the buffer, and from then on the parser has been reset,
\* once, to WAITING_MAGIC with an empty buffer.
C7_OverflowPolicy ==
    /\ ~store_oob
    /\ buffer_pos_ < PROTOCOL_MAX_MESSAGE_SIZE
    /\ Len(buffer_) = buffer_pos_
    /\ (scenario.frames # <<>> /\ scenario.frames[1].kind = "oversize") =>
          /\ (pos >= 10 /\ pos < PROTOCOL_MAX_MESSAGE_SIZE) =>
                (state_ = "WAITING_PAYLOAD" /\ buffer_pos_ = pos /\ overflow_resets = 0)
          /\ (pos >= PROTOCOL_MAX_MESSAGE_SIZE /\ pos <= FrameEnd(1)) =>
                (Synced /\ emitted = <<>> /\ overflow_resets = 1)

\* C7 witness: an oversize frame has filled the buffer and the overflow check has reset
\* the parser.
C7_Witness ==
    /\ scenario.frames # <<>> /\ scenario.frames[1].kind = "oversize"
    /\ pos >= PROTOCOL_MAX_MESSAGE_SIZE
    /\ overflow_resets = 1
    /\ Synced

----------------------------------------------------------------------------
\* Claims about the application state machine

\* the calls of transitionTo / forceTransition on the stack
TransitionFrames == { k \in 1 .. Len(stack) : stack[k].f = "transitionTo" }

\* C8: transitions never nest.  A transitionTo, forceTransition or update called
\* while a transition is in progress returns at once (transitionTo with false), and
\* leaves the state ids, the entry timestamps, the event queue and the call stack
\* as they were; so at most one transition is ever in progress.
C8_TransitionsNeverNest ==
    /\ [](/\ Cardinality(TransitionFrames) <= 1
          /\ (TransitionFrames # {}) => transitioning_
          /\ last_ret.during => ~last_ret.ret)
    /\ [][(last_ret'.op # "none" /\ last_ret'.during) =>
              UNCHANGED <<current_state_id_, previous_state_id_, current_state_,
                          transitioning_, entry_time_, event_queue_, stack>>]_vars

\* the state-change callback has just had a forceTransition to another registered
\* state rejected
C8_Witness ==
    /\ stack # <<>>
    /\ stack[Len(stack)].f = "callback"
    /\ stack[Len(stack)].kind = "on_state_change"
    /\ last_ret.op = "forceTransition"
    /\ last_ret.caller = "on_state_change"
    /\ last_ret.during
    /\ ~last_ret.ret
    /\ last_ret.target \in Registered \ {current_state_id_}

\* C9: a transitionTo to another state called from inside a rule's action returns
\* false and changes neither the current nor the previous state.
C9_RuleActionTransitionRejected ==
    (/\ last_ret.op = "transitionTo"
     /\ last_ret.caller = "action"
     /\ last_ret.target \in Registered \ {last_ret.from})
        => (~last_ret.ret /\ last_ret.current = last_ret.from)

\* what the transition of frame f has done when user code runs inside it: the steps
\* it has reached, in order, with the ids and the entry timestamp seen at each
StepsInOrder(f) ==
    LET n == Len(f.steps)
    IN  /\ n = (CASE f.pc = "enter" -> 1 [] f.pc = "changed" -> 2 [] f.pc = "return" -> 3)
        /\ f.steps[1].step = "onExit"
        /\ f.steps[1].state = f.from
        /\ f.steps[1].current = f.from
        /\ (n = 1) => current_state_id_ = f.from
        /\ (n >= 2) =>
              /\ f.steps[2].step = "onEntry"
              /\ f.steps[2].state = f.target
              /\ f.steps[2].current = f.target
              /\ f.steps[2].previous = f.from
              /\ f.steps[2].timed
              /\ current_state_id_ = f.target
              /\ previous_state_id_ = f.from
        /\ (n >= 3) =>
              /\ f.steps[3].step = "on_state_change"
              /\ f.steps[3].args = <<f.from, f.target>>
              /\ f.steps[3].current = f.target
              /\ f.steps[3].previous = f.from

\* C10: a transition from S to another state T performs, in this order: S's exit
\* action (ids still S); the update of the ids (current T, previous S); the reset of
\* T's entry timestamp; T's entry action; the state-change callback with (S, T).
\* When transitionTo returns, previous is S and current is T.
C10_TransitionOrder ==
    /\ \A k \in TransitionFrames : StepsInOrder(stack[k])
    /\ (last_ret.op \in {"transitionTo", "forceTransition"} /\ last_ret.ret
            /\ last_ret.target # last_ret.from) =>
          (last_ret.current = last_ret.target /\ last_ret.previous = last_ret.from)

\* the state-change callback of a transition between two states that have an exit
\* and an entry action is running, and the entry reset the timestamp to a new value
C10_Witness ==
    \E k \in TransitionFrames :
        /\ stack[k].pc = "return"
        /\ exit_action_(stack[k].from)
        /\ entry_action_(stack[k].target)
        /\ Len(stack[k].steps) = 3
        /\ entry_time_[stack[k].target] # U32(0, 0)
        /\ stack[Len(stack)].kind = "on_state_change"

----------------------------------------------------------------------------
\* Claims about the machine driven by the main loop

Log == trace.log
Last == Log[Len(Log)]

\* C16: postEvent only appends. A call of postEvent(e), from the main loop or from user
\* code the machine is running, leaves the queue as it was with e added at the end, and
\* changes nothing else: not the current or previous state, the entry timestamps or the
\* reentrancy flag, and it pushes no guard, action or callback onto the call stack.
C16_PostEventOnlyAppends ==
    [][\A type \in AppEvent :
          PostEvent(type) =>
              /\ event_queue_' = Append(event_queue_, type)
              /\ UNCHANGED <<current_state_id_, previous_state_id_, current_state_,
                             transitioning_, entry_time_, stack>>]_vars

\* an event was posted by an exit or entry action or the on-change callback of a
\* transition in progress, behind an event already waiting
C16_Witness ==
    /\ Log # <<>>
    /\ Last.k = "post"
    /\ transitioning_
    /\ stack # <<>>
    /\ Len(event_queue_) = 2
    /\ event_queue_[1] # event_queue_[2]

\* what a transition writes, the queue and the call stack
machineFields ==
    <<current_state_id_, previous_state_id_, current_state_, transitioning_, entry_time_,
      event_queue_, stack>>

\* C17: transitionTo(target) with target equal to the current state, no transition being
\* in progress, returns true and is a no-op: it runs no exit action, no entry action and
\* no on-change callback (it reaches no step and leaves the call stack as it was), and
\* the current and previous state and the entry timestamps are unchanged.
C17_SameStateIsNoOp ==
    [][\A target \in AppState :
          (target = current_state_id_ /\ ~transitioning_ /\ TransitionTo(target)) =>
              /\ last_ret'.op = "transitionTo"
              /\ last_ret'.target = target
              /\ last_ret'.ret
              /\ last_ret'.steps = 0
              /\ UNCHANGED machineFields]_vars

\* transitionTo(READY) called in READY, READY having been entered from another state
C17_Witness ==
    /\ last_ret.op = "transitionTo"
    /\ last_ret.target = "READY"
    /\ last_ret.from = "READY"
    /\ ~last_ret.during
    /\ last_ret.ret
    /\ last_ret.previous = "CONFIG_LOADING"

\* C18: forceTransition(target) with target equal to the current state, no transition
\* being in progress, runs the full transition sequence: when it returns, the exit step,
\* the entry step (timestamp reset and entry action) and the on-change callback have
\* been reached, three steps in all.
C18_ForceTransitionReenters ==
    (last_ret.op = "forceTransition" /\ last_ret.target = last_ret.from /\ ~last_ret.during)
        => last_ret.steps = 3

\* the calls of transitionTo that have returned in the traced call
Returns == { i \in 1 .. Len(Log) : Log[i].k = "return" /\ Log[i].ret.op = "transitionTo" }

\* C19: a transition to a state that was never registered fails with no mutation.
\* Whether transitionTo was called by the main loop, for a rule's target or for a
\* timeout target from update(), it returns false, no exit action, entry action or
\* on-change callback has run (it reached no step, and nothing happened between the call
\* and its return), and the current state, the previous state, the entry timestamps and
\* the reentrancy flag are what they were when it was called.
C19_UnregisteredTargetFails ==
    \A i \in Returns :
        Log[i].ret.target \notin Registered =>
            /\ ~Log[i].ret.ret
            /\ Log[i].ret.steps = 0
            /\ Log[i].before = Log[i].after
            /\ Log[i].ret.current = Log[i].ret.from
            /\ CASE Log[i].ret.caller = "main" -> i = 1
                 [] Log[i].ret.caller = "update" -> Log[i - 1].k = "timeout"
                 [] Log[i].ret.caller = "processEvents" -> Log[i - 1].k = "handled"

\* one update(): in READY the timeout's unregistered target was refused, and later, in
\* CONFIG_LOADING, so was the unregistered target of the rule that SHUTDOWN fired
C19_Witness ==
    /\ \E i \in Returns :
          /\ Log[i].ret.caller = "update"
          /\ Log[i].ret.target = "SHUTTING_DOWN"
          /\ Log[i].ret.previous = "CONFIG_LOADING"
    /\ \E i \in Returns :
          /\ Log[i].ret.caller = "processEvents"
          /\ Log[i].ret.target = "SHUTTING_DOWN"
          /\ Log[i].ret.from = "CONFIG_LOADING"
    /\ stack = <<>>

\* entries i < j of the trace belong to the handling of the same event
SameEvent(i, j) == \A m \in (i + 1) .. j : Log[m].k # "event"

\* the entry that dequeued the event being handled at entry i
EventOf(i) == CHOOSE j \in 1 .. i : Log[j].k = "event" /\ SameEvent(j, i)

\* the guards that returned false in the traced call
Rejections == { i \in 1 .. Len(Log) : Log[i].k = "guard" /\ ~Log[i].result }

\* C12 as stated: when update() handles an event that matches a rule whose guard
\* evaluates false, that rule's action is not run, and no transition made for that
\* event changes the current state, the previous state or an entry timestamp.
C12_GuardRejection_asStated ==
    \A i \in Rejections :
        \A j \in (i + 1) .. Len(Log) :
            SameEvent(i, j) =>
                /\ ~(Log[j].k = "action" /\ Log[j].rule = Log[i].rule)
                /\ j \in Returns => Log[j].before = Log[j].after

\* C12, amended: when update() handles an event that matches a rule whose guard evaluates
\* false, that rule's action is not run and the rejection changes nothing: the scan goes
\* on to a later rule, and the current state, the previous state and the entry
\* timestamps are as they were when the event was dequeued, up to the point where a
\* later rule accepts the event, and for good when no rule does.
C12_GuardRejection ==
    \A i \in Rejections :
        /\ Log[i].snap = Log[EventOf(i)].snap
        /\ \A j \in (i + 1) .. Len(Log) :
              SameEvent(i, j) =>
                  /\ Log[j].k \in {"action", "handled", "guard"} => Log[j].rule > Log[i].rule
                  /\ Log[j].k = "unhandled" => Log[j].snap = Log[i].snap
                  /\ j \in Returns \/ Log[j].k \in {"onExit", "onEntry", "on_state_change"} =>
                        \E h \in (i + 1) .. (j - 1) : Log[h].k = "handled"

\* SHUTDOWN handled in READY: the guard of its only rule returned false, the event was
\* dropped, and the update went on with the next event
C12_Witness ==
    \E i \in Rejections :
        /\ Log[EventOf(i)].state = "READY"
        /\ i + 2 <= Len(Log)
        /\ Log[i + 1].k = "unhandled"
        /\ Log[i + 2].k = "event"

\* the entries made while the event dequeued at entry e was handled
Seg(e) == { m \in (e + 1) .. Len(Log) : SameEvent(e, m) }

Handled == { j \in 1 .. Len(Log) : Log[j].k = "handled" }
Unhandled == { j \in 1 .. Len(Log) : Log[j].k = "unhandled" }

\* rule q of the list ts was tried for the event of entry e before entry j, and its guard
\* returned result
Guarded(e, j, q, result) ==
    \E g \in (e + 1) .. (j - 1) :
        Log[g].k = "guard" /\ Log[g].rule = q /\ Log[g].result = result

\* C13: rule selection. For each handled event the rule that fires is the first rule, in
\* the order the rules were added to the state current when the event was dequeued,
\* whose event matches and whose guard is absent or returned true: every earlier
\* matching rule has a guard, which returned false. The rule's action runs once, before
\* any step of the transition; the machine then requests the rule's target and is in it
\* when the request returns (a target never registered is refused, C19); no other rule's
\* guard or action runs after the rule fired. An event no rule accepts fires nothing.
C13_RuleSelection ==
    /\ \A j \in Handled :
          LET e == EventOf(j)
              ts == transitions_(Log[e].state)
              r == Log[j].rule
          IN  /\ r \in 1 .. Len(ts)
              /\ ts[r].event = Log[e].type
              /\ Log[j].target = ts[r].target_state
              /\ \A q \in 1 .. (r - 1) :
                    ts[q].event = Log[e].type => ts[q].guard /\ Guarded(e, j, q, FALSE)
              /\ ts[r].guard => Guarded(e, j, r, TRUE)
              /\ Cardinality({ m \in Seg(e) : Log[m].k = "action" }) = IF ts[r].action THEN 1 ELSE 0
              /\ Cardinality({ m \in Seg(e) : Log[m].k = "handled" }) = 1
              /\ \A m \in Seg(e) :
                    /\ Log[m].k \in {"guard", "action", "handled"} => m <= j /\ Log[m].rule <= r
                    /\ Log[m].k = "action" => Log[m].rule = r
                    /\ Log[m].k \in {"onExit", "onEntry", "on_state_change"} => m > j
                    /\ m \in Returns =>
                          /\ m > j
                          /\ Log[m].ret.caller = "processEvents"
                          /\ Log[m].ret.target = ts[r].target_state
                          /\ Log[m].ret.from = Log[e].current
                          /\ ts[r].target_state \in Registered =>
                                Log[m].ret.ret /\ Log[m].ret.current = ts[r].target_state
    /\ \A u \in Unhandled :
          LET e == EventOf(u)
              ts == transitions_(Log[e].state)
          IN  /\ \A q \in 1 .. Len(ts) :
                    ts[q].event = Log[e].type => ts[q].guard /\ Guarded(e, u, q, FALSE)
              /\ \A m \in Seg(e) : Log[m].k \notin {"action", "handled", "onExit", "onEntry"}

\* in one update(), CONFIG_LOADING handled BOOT_COMPLETE twice: once the first rule's
\* guard returned false and the second rule led to BOOT, once the guard returned true and
\* the first rule ran its action and led to READY
C13_Witness ==
    /\ stack = <<>>
    /\ \E j \in Handled :
          /\ Log[EventOf(j)].state = "CONFIG_LOADING"
          /\ Log[j].rule = 2
          /\ \E m \in Seg(EventOf(j)) : m \in Returns /\ Log[m].ret.current = "BOOT"
    /\ \E j \in Handled :
          /\ Log[EventOf(j)].state = "CONFIG_LOADING"
          /\ Log[j].rule = 1
          /\ Log[j - 1].k = "action"
          /\ \E m \in Seg(EventOf(j)) : m \in Returns /\ Log[m].ret.current = "READY"

\* the events posted, and the events dequeued, at the entries a .. b of the trace
RECURSIVE PostedIn(_, _)
PostedIn(a, b) ==
    IF a > b THEN <<>>
    ELSE IF Log[b].k = "post" THEN Append(PostedIn(a, b - 1), Log[b].type)
    ELSE PostedIn(a, b - 1)

RECURSIVE DequeuedIn(_, _)
DequeuedIn(a, b) ==
    IF a > b THEN <<>>
    ELSE IF Log[b].k = "event" THEN Append(DequeuedIn(a, b - 1), Log[b].type)
    ELSE DequeuedIn(a, b - 1)

Timeouts == { t \in 1 .. Len(Log) : Log[t].k = "timeout" }
Events == { e \in 1 .. Len(Log) : Log[e].k = "event" }

\* C14: within one update() an expired timeout is taken before any queued event is
\* handled. Nothing but the update action (which may post) precedes the timeout; the
\* transition to the timeout target has returned before the first event is dequeued; and
\* the events queued at that moment meet the timeout target: the first of them is matched
\* against the rules of the target state (a registered one), not of the timed-out state.
C14_TimeoutBeforeEvents ==
    \A t \in Timeouts :
        /\ Log[1].k = "update"
        /\ Log[t].state = Log[1].current
        /\ Log[t].target = timeout_state_(Log[t].state)
        /\ \A m \in 2 .. (t - 1) : Log[m].k \in {"post", "checkTimeout"}
        /\ \A e \in Events :
              /\ e > t
              /\ \E m \in (t + 1) .. (e - 1) :
                    /\ m \in Returns
                    /\ Log[m].ret.caller = "update"
                    /\ Log[m].ret.target = Log[t].target
              /\ (Log[t].target \in Registered /\ \A m \in (t + 1) .. (e - 1) : m \notin Events) =>
                    /\ Log[e].state = Log[t].target
                    /\ Log[e].current = Log[t].target
                    /\ Log[e].type = Head(Log[1].queue \o PostedIn(2, e - 1))
                    /\ \A j \in Seg(e) :
                          Log[j].k = "handled" =>
                              transitions_(Log[t].target)[Log[j].rule].target_state = Log[j].target

\* update() in READY with SHUTDOWN queued and the timeout expired: READY timed out to
\* BOOT, and SHUTDOWN, which READY has a rule for, met BOOT, which has none
C14_Witness ==
    /\ stack = <<>>
    /\ \E t \in Timeouts :
          /\ Log[t].state = "READY"
          /\ Log[t].target = "BOOT"
          /\ Log[1].queue # <<>>
          /\ Log[1].queue[1] = "SHUTDOWN"
          /\ \E e \in Events : Log[e].type = "SHUTDOWN" /\ Log[e].state = "BOOT" /\ Log[e + 1].k = "unhandled"

\* the state the machine is in when entry e is made, by the trace: where the last
\* transition before e left it, or where update() found it
CurrentAt(e) ==
    IF \E m \in 1 .. (e - 1) : m \in Returns
    THEN Log[CHOOSE m \in 1 .. (e - 1) : m \in Returns /\ \A n \in (m + 1) .. (e - 1) : n \notin Returns].ret.current
    ELSE Log[1].current

\* C15: FIFO drain. During update() the events dequeued so far followed by the events
\* still queued are the events queued when update() was called followed by the events
\* posted since, in posting order: each event is handled once, in the order posted. Each
\* is matched against the state current when its turn comes. An event that no rule of
\* that state accepts is discarded without effect: ids, entry timestamps and reentrancy
\* flag stay as they were, and the drain goes on. When update() returns the queue is
\* empty.
C15_FifoDrain ==
    (Log # <<>> /\ Log[1].k = "update") =>
        /\ DequeuedIn(2, Len(Log)) \o event_queue_ = Log[1].queue \o PostedIn(2, Len(Log))
        /\ \A e \in Events :
              /\ Log[e].state = Log[e].current
              /\ Log[e].current = CurrentAt(e)
              /\ \A j \in Seg(e) :
                    Log[j].k \in {"guard", "action", "handled"} =>
                        transitions_(CurrentAt(e))[Log[j].rule].event = Log[e].type
        /\ \A u \in Unhandled :
              /\ Log[u].snap = Log[EventOf(u)].snap
              /\ u < Len(Log) =>
                    \/ Log[u + 1].k = "event"
                    \/ Log[u + 1].k = "return" /\ Log[u + 1].ret.op = "update"
        /\ (Last.k = "return" /\ Last.ret.op = "update" /\ Last.ret.ret) =>
              /\ Last.queue = <<>>
              /\ event_queue_ = <<>>
              /\ current_state_id_ \in Registered
              /\ ~transitioning_

\* update() has returned after three events: two different ones queued when it was
\* called and one posted by user code while it ran; one of the three matched no rule
C15_Witness ==
    /\ Log # <<>>
    /\ Log[1].k = "update"
    /\ Last.k = "return"
    /\ Last.ret.op = "update"
    /\ Len(Log[1].queue) = 2
    /\ Log[1].queue[1] # Log[1].queue[2]
    /\ Cardinality(Events) = 3
    /\ Unhandled # {}
    /\ \E p \in 1 .. Len(Log) : Log[p].k = "post" /\ \E e \in Events : e < p

\* user code called by the machine is running, not code it called in turn
Running(kind) ==
    /\ stack # <<>>
    /\ stack[Len(stack)].f = "callback"
    /\ stack[Len(stack)].kind = kind

\* C20: while a transition rule's action runs, and while the exited state's exit action
\* runs, getCurrentState() returns the state being exited (the state whose rule fired,
\* the state whose exit action it is); the identifier has changed to the target when
\* the target's entry action runs.
C20_ActionsSeeExitedState ==
    /\ Running("action") => current_state_id_ = stack[Len(stack)].state
    /\ Running("exit_action") => current_state_id_ = stack[Len(stack)].state
    /\ Running("entry_action") => current_state_id_ = stack[Len(stack)].state

----------------------------------------------------------------------------
\* Claims about timeouts

\* the readings of millis() by update() for its timeout check
Checks == { c \in 1 .. Len(Log) : Log[c].k = "checkTimeout" }

\* milliseconds, modulo 2^32, between the entry timestamp of the checked state and the
\* reading of entry c
Elapsed(c) == U32Sub(Log[c].now, Log[c].snap[3][Log[c].state])

Expired(c) ==
    /\ timeout_ms_(Log[c].state) # U32(0, 0)
    /\ U32Ge(Elapsed(c), timeout_ms_(Log[c].state))

\* C11: state timeout. An update() that reads now with now - t0 < T, t0 being the entry
\* timestamp of the current state and T its timeout, takes no timeout, and when none of
\* its events is handled it leaves current state, previous state and entry timestamps
\* unchanged; an update() that reads now - t0 >= T > 0 (difference modulo 2^32)
\* requests the declared timeout target at once and the machine is in it when the request
\* returns (a target never registered is refused, C19); a state with timeout 0 never
\* times out. Entering a state, at begin() or by a transition, sets its entry timestamp
\* to the time of the entry, and nothing else changes the current state's timestamp:
\* re-entering restarts the measurement.
C11_StateTimeout ==
    /\ [](\A c \in Checks :
            /\ Log[c].state = Log[1].current
            /\ timeout_ms_(Log[c].state) = U32(0, 0) => ~Expired(c)
            /\ Expired(c) =>
                  /\ c < Len(Log)
                  /\ Log[c + 1].k = "timeout"
                  /\ Log[c + 1].target = timeout_state_(Log[c].state)
                  /\ \A m \in Returns :
                        Log[m].ret.caller = "update" =>
                            /\ m = Len(Log) \/ Log[m + 1].k \in {"event", "return"}
                            /\ \A e \in Events : e > m
                            /\ Log[m].ret.target = timeout_state_(Log[c].state)
                            /\ Log[m].ret.target \in Registered =>
                                  /\ Log[m].ret.ret
                                  /\ Log[m].ret.current = Log[m].ret.target
                                  /\ Log[m].ret.previous = Log[c].state
            /\ ~Expired(c) =>
                  /\ Timeouts = {}
                  /\ \A m \in Returns : Log[m].ret.caller # "update"
                  /\ Handled = {} =>
                        <<current_state_id_, previous_state_id_, entry_time_, transitioning_>>
                            = Log[c].snap)
    /\ [][((current_state_id_' # current_state_id_ \/ begun' # begun) =>
               entry_time_'[current_state_id_'] = now)
           /\ ((current_state_id_' = current_state_id_ /\ begun' = begun) =>
                 entry_time_'[current_state_id_] = entry_time_[current_state_id_])]_vars

\* BOOT (timeout 2) was entered at 2^32 - 1; the update() that read millis() = 1, after
\* the wrap, took the timeout and the machine is in CONFIG_LOADING, entered at 1
C11_Witness ==
    /\ stack = <<>>
    /\ \E c \in Checks :
          /\ Log[c].state = "BOOT"
          /\ Log[c].snap[3]["BOOT"] = U32(65535, 65535)
          /\ Log[c].now = U32(0, 1)
          /\ Expired(c)
    /\ current_state_id_ = "CONFIG_LOADING"
    /\ entry_time_["CONFIG_LOADING"] = U32(0, 1)

----------------------------------------------------------------------------
\* Claims about voice activity detection

\* the time between the first and the latest frame of a run, as updateVAD measures it
Dur(r) == U32Sub(r.last, r.first)
ShorterThan(r, ms) == ~U32Ge(Dur(r), U32(0, ms))
LongerThan(r, ms) == U32Ge(Dur(r), U32(0, ms)) /\ Dur(r) # U32(0, ms)

\* C21: VAD debounce. While the level has been above the threshold for less than
\* vad_min_duration_ms since SILENCE was left no VOICE_DETECTED has been emitted, and
\* when it then drops the classification is SILENCE again with no event; once it has
\* been above for longer than vad_min_duration_ms exactly one VOICE_DETECTED has been
\* emitted, however long the level stays above.
C21_Debounce ==
    /\ (run.n > 0 /\ run.above /\ run.from = "SILENCE"
            /\ ShorterThan(run, config_.vad_min_duration_ms))
        => (run.detected = 0 /\ vad_state_ = "VOICE_START")
    /\ (run.n > 0 /\ ~run.above /\ before.n > 0 /\ before.above /\ before.from = "SILENCE"
            /\ ShorterThan(before, config_.vad_min_duration_ms))
        => (before.detected = 0 /\ run.detected = 0 /\ run.lost = 0
               /\ vad_state_ = "SILENCE")
    /\ (run.n > 0 /\ run.above /\ run.from = "SILENCE" /\ event_callback_
            /\ LongerThan(run, config_.vad_min_duration_ms))
        => (run.detected = 1 /\ vad_state_ = "VOICE_ACTIVE")

C21_Witness ==
    /\ event_callback_ /\ run.above /\ run.from = "SILENCE" /\ run.n >= 4
    /\ LongerThan(run, config_.vad_min_duration_ms)
    /\ run.detected = 1
    /\ before.n > 0

\* C22: VAD hangover. After VOICE_DETECTED, while the level has been at or below the
\* threshold for less than vad_silence_ms no VOICE_LOST has been emitted and the
\* classification is VOICE_END, and VOICE_ACTIVE again with no event when the level
\* returns; once it has been below for vad_silence_ms or longer exactly one VOICE_LOST
\* has been emitted and the classification is SILENCE. With threshold 500, minimum
\* duration 200 ms and silence 500 ms, 300 ms of level 800 followed by 600 ms of level
\* 50 produce exactly one VOICE_DETECTED and exactly one VOICE_LOST.
C22_Hangover ==
    /\ (run.n > 0 /\ ~run.above /\ run.from = "VOICE_ACTIVE"
            /\ ShorterThan(run, config_.vad_silence_ms))
        => (run.lost = 0 /\ vad_state_ = "VOICE_END")
    /\ (run.n > 0 /\ run.above /\ run.from = "VOICE_END")
        => (before.lost = 0 /\ run.lost = 0 /\ run.detected = 0
               /\ vad_state_ = "VOICE_ACTIVE")
    /\ (run.n > 0 /\ ~run.above /\ run.from = "VOICE_ACTIVE" /\ event_callback_
            /\ ~ShorterThan(run, config_.vad_silence_ms))
        => (run.lost = 1 /\ vad_state_ = "SILENCE")
    /\ (config_ = AudioStreamerConfig /\ total_frame_count_ = UtteranceFrames
            /\ event_callback_)
        => (/\ before.n = VoiceFrames /\ before.above
            /\ run.n = UtteranceFrames - VoiceFrames /\ ~run.above
            /\ before.detected + run.detected = 1
            /\ before.lost + run.lost = 1
            /\ voice_events_ = 1
            /\ vad_state_ = "SILENCE")

\* the utterance has been classified, one jittered frame after the other, by a
\* streamer whose millis() wrapped during the first frame
C22_Witness ==
    /\ config_ = AudioStreamerConfig /\ event_callback_
    /\ total_frame_count_ = UtteranceFrames
    /\ before.first.hi = 0 /\ before.first.lo < config_.frame_duration_ms
    /\ U32Sub(millis, before.first).lo > (UtteranceFrames - 1) * config_.frame_duration_ms
    /\ run.lost = 1

\* C23: the VAD transition table. Every call of updateVAD takes the classification
\* to the one the table gives for the classification before it, the above-threshold
\* flag rms > threshold and the elapsed time, and emits the table's event and no
\* other: SILENCE/above -> VOICE_START recording the start time; VOICE_START/above
\* -> VOICE_ACTIVE with VOICE_DETECTED when elapsed >= min duration, else VOICE_START;
\* VOICE_START/below -> SILENCE, no event; VOICE_ACTIVE/above -> VOICE_ACTIVE;
\* VOICE_ACTIVE/below -> VOICE_END recording the silence-start time; VOICE_END/above
\* -> VOICE_ACTIVE, no event; VOICE_END/below -> SILENCE with VOICE_LOST when elapsed
\* >= silence duration, else VOICE_END.
C23_TransitionTable ==
    [][total_frame_count_' = total_frame_count_ + 1 =>
        LET above == run'.above
            voiced == U32Ge(U32Sub(millis', voice_start_time_),
                            U32(0, config_.vad_min_duration_ms))
            quiet == U32Ge(U32Sub(millis', silence_start_time_),
                           U32(0, config_.vad_silence_ms))
            none == events' = <<>>
            only(e) == events' = IF event_callback_ THEN <<e>> ELSE <<>>
        IN  /\ (vad_state_ = "SILENCE" /\ above) =>
                (vad_state_' = "VOICE_START" /\ voice_start_time_' = millis' /\ none)
            /\ (vad_state_ = "VOICE_START" /\ above /\ voiced) =>
                (vad_state_' = "VOICE_ACTIVE" /\ only("VOICE_DETECTED"))
            /\ (vad_state_ = "VOICE_START" /\ above /\ ~voiced) =>
                (vad_state_' = "VOICE_START" /\ none)
            /\ (vad_state_ = "VOICE_START" /\ ~above) =>
                (vad_state_' = "SILENCE" /\ none)
            /\ (vad_state_ = "VOICE_ACTIVE" /\ above) =>
                (vad_state_' = "VOICE_ACTIVE" /\ none)
            /\ (vad_state_ = "VOICE_ACTIVE" /\ ~above) =>
                (vad_state_' = "VOICE_END" /\ silence_start_time_' = millis' /\ none)
            /\ (vad_state_ = "VOICE_END" /\ above) =>
                (vad_state_' = "VOICE_ACTIVE" /\ none)
            /\ (vad_state_ = "VOICE_END" /\ ~above /\ quiet) =>
                (vad_state_' = "SILENCE" /\ only("VOICE_LOST"))
            /\ (vad_state_ = "VOICE_END" /\ ~above /\ ~quiet) =>
                (vad_state_' = "VOICE_END" /\ none)]_vars

\* the level came back above the threshold during the hangover: VOICE_ACTIVE was
\* resumed by a call that reported nothing
C23_Witness ==
    /\ event_callback_
    /\ run.n = 1 /\ run.above /\ run.from = "VOICE_END"
    /\ vad_state_ = "VOICE_ACTIVE"
    /\ events = <<>>
    /\ voice_events_ = 1

----------------------------------------------------------------------------
\* Claims about frame assembly, the queues and the capture task

\* C24: voice gating. The frame processFrame completed last was handed to the raw
\* and the encoded queue if and only if the classification after its VAD step was
\* VOICE_ACTIVE or VOICE_END.
C24_VoiceGating ==
    last_frame # NoFrame =>
        /\ last_frame.raw <=> last_frame.vad_state \in {"VOICE_ACTIVE", "VOICE_END"}
        /\ last_frame.encoded <=> last_frame.vad_state \in {"VOICE_ACTIVE", "VOICE_END"}

\* C26: cooperative cancellation. The capture task is never deleted from another
\* context: it ends only by leaving captureLoop itself, after a loop test that found
\* the state flag flipped.
C26_CooperativeStop ==
    /\ task_pc # "deleted"
    /\ last_call.task \notin {"deleted in loop", "deleted in read", "stale handle deleted"}

\* C28: failed hardware read. The read that fails increments the error counter and
\* is reported through the registered callback, and the capture task goes on to the
\* loop test for the next read.
C28_ReadErrorReported ==
    [][errors_' = errors_ + 1 =>
          /\ task_pc' = "loop"
          /\ event_callback_ => \E i \in 1 .. Len(events') : events'[i] = "ERROR"]_vars

\* C29: teardown resets the VAD. When stop() or end() has returned the VAD
\* classification is SILENCE.
C29_TeardownResetsVad ==
    last_call.op \in {"stop", "end"} => vad_state_ = "SILENCE"

\* C27: frame assembly. Whatever the sizes of the chunks handed to processFrame,
\* once k * N samples have been fed exactly k frames have been completed, no sample
\* fed has been dropped, the accumulation position never exceeds N, and it is 0
\* after each completed frame.
C27_FrameAssembly ==
    LET N == frame_samples(config_)
    IN  /\ fed.samples % N = 0 => fed.frames = fed.samples \div N
        /\ fed.dropped = 0
        /\ frame_buffer_pos_ <= N
        /\ last_frame # NoFrame => frame_buffer_pos_ = 0

\* C25: drop-oldest backpressure. Every frame the capture task has pushed is in the
\* queue once its push is over, whether the queue was full or not, and no queued
\* frame is discarded by the task unless the queue is full at the moment of the
\* discard.
C25_DropOldest ==
    /\ \A n \in capture.discarded : n = AUDIO_QUEUE_LENGTH
    /\ (capture.pc = "loop" /\ capture.frame > 0) => capture.pushed = capture.frame

----------------------------------------------------------------------------
\* Claims about corrupted frames

\* C30: checksum sensitivity. For every frame serialize produces, deserialize of the
\* frame with any single bit of its header or payload bytes inverted fails: no
\* altered frame is accepted.
C30_ChecksumSensitivity == codec_pc # "accepted"

----------------------------------------------------------------------------
\* Claims about the size and the layout of the encoded frame

\* C31: encoded frame size. serialize of a message with payload length L into a buffer
\* that is large enough succeeds and gives a frame of exactly 10 + L + 2 bytes: the
\* payload starts at offset 10, after the ten bytes of the header, and the checksum of
\* header and payload is in the last two bytes.
C31_EncodedFrameSize ==
    codec_pc = "serialized" =>
        /\ Len(wire) = 10 + Len(msg.payload_) + 2
        /\ SubSeq(wire, 11, 10 + Len(msg.payload_)) = msg.payload_
        /\ wire[Len(wire) - 1] + 256 * wire[Len(wire)]
              = calculateCRC16(wire, 10 + Len(msg.payload_))

\* C32: a payload longer than the maximum is refused. No frame is produced for a
\* message that was given more than PROTOCOL_MAX_PAYLOAD_SIZE payload bytes, and the
\* payload of every frame produced is the whole of the data given, never a part of it.
C32_OversizePayloadRefused ==
    codec_pc = "serialized" =>
        /\ Len(given) <= PROTOCOL_MAX_PAYLOAD_SIZE
        /\ SubSeq(wire, PROTOCOL_HEADER_SIZE + 1, Len(wire) - PROTOCOL_FOOTER_SIZE) = given

----------------------------------------------------------------------------
\* Claims about the failures of deserialize

\* the buffer handed to deserialize is shorter than the shortest frame
TooShort == Len(wire) < PROTOCOL_HEADER_SIZE + PROTOCOL_FOOTER_SIZE
\* the payload length the header of the buffer declares
Declared == wire[5] + 256 * wire[6]
\* the 16-bit value that follows the declared payload is not the CRC of the bytes before it
CrcDiffers ==
    /\ ~TooShort
    /\ Len(wire) >= PROTOCOL_HEADER_SIZE + Declared + PROTOCOL_FOOTER_SIZE
    /\ wire[PROTOCOL_HEADER_SIZE + Declared + 1] + 256 * wire[PROTOCOL_HEADER_SIZE + Declared + 2]
          # calculateCRC16(wire, PROTOCOL_HEADER_SIZE + Declared)

----------------------------------------------------------------------------
\* Claims about the progress of the reassembler

\* C34: the reassembler never blocks on garbage. The bytes it is holding are the bytes
\* fed latest, fewer than PROTOCOL_MAX_MESSAGE_SIZE of them, and it holds none exactly
\* when it is in WAITING_MAGIC: so every byte fed earlier has ended in an emitted message
\* or in WAITING_MAGIC with an empty buffer, and within PROTOCOL_MAX_MESSAGE_SIZE further
\* bytes the bytes held now will have, whatever payload length a header declares.
C34_NeverBlocksOnGarbage ==
    /\ buffer_pos_ < PROTOCOL_MAX_MESSAGE_SIZE
    /\ buffer_pos_ <= pos
    /\ buffer_ = SubSeq(Stream, pos - buffer_pos_ + 1, pos)
    /\ buffer_pos_ = 0 <=> state_ = "WAITING_MAGIC"

\* a header declaring 65535 payload bytes has been given up when the buffer was full, the
\* filler after it has been skipped, and the frame that follows has been emitted
C34_Witness ==
    /\ scenario.frames # <<>>
    /\ scenario.frames[1].kind = "oversize"
    /\ decode(scenario.frames[1].bytes).payload_length = 65535
    /\ Len(scenario.frames[1].bytes) > PROTOCOL_MAX_MESSAGE_SIZE
    /\ overflow_resets = 1
    /\ Len(emitted) = 1
    /\ state_ = "WAITING_MAGIC"

----------------------------------------------------------------------------
\* Claims about the reentrancy flag

\* C35: transitioning_ is true only while the exit action, the entry action or the
\* state-change callback of a transition is running; whenever the outermost call of
\* transitionTo, forceTransition or update has returned, by whatever path, it is false.
C35_FlagOnlyDuringTransition ==
    /\ stack = <<>> => ~transitioning_
    /\ transitioning_ =>
          \E k \in 2 .. Len(stack) :
              /\ stack[k].f = "callback"
              /\ stack[k].kind \in {"exit_action", "entry_action", "on_state_change"}
              /\ stack[k - 1].f = "transitionTo"

\* the main loop's transitionTo or forceTransition has carried out a transition and
\* returned, and the flag is false
C35_Witness ==
    /\ stack = <<>>
    /\ last_ret.op \in {"transitionTo", "forceTransition"}
    /\ last_ret.caller = "main"
    /\ last_ret.ret
    /\ last_ret.steps > 0
    /\ ~transitioning_

----------------------------------------------------------------------------
\* Claims about the order of the voice events

\* a VOICE_DETECTED has been reported and the VOICE_LOST that closes it has not
VoiceOpen(state) == state \in {"VOICE_ACTIVE", "VOICE_END"}

\* C36: VOICE_DETECTED and VOICE_LOST alternate, VOICE_DETECTED first. A frame reports at
\* most one of them; VOICE_DETECTED is reported only by the frame that takes the detector
\* into VOICE_ACTIVE from outside VOICE_ACTIVE and VOICE_END, VOICE_LOST only by the frame
\* that takes it out of these two states, and (with a callback registered) each of these
\* frames reports it; the detector starts outside the two states. So VOICE_ACTIVE and
\* VOICE_END are occupied exactly between a VOICE_DETECTED and the next VOICE_LOST, and
\* no event of either kind is repeated before the other.
C36_VoiceEventsAlternate ==
    /\ ~VoiceOpen(vad_state_)
    /\ [][ total_frame_count_' = total_frame_count_ + 1 =>
          /\ Count(events', "VOICE_DETECTED") + Count(events', "VOICE_LOST") = Len(events')
          /\ Len(events') <= 1
          /\ Count(events', "VOICE_DETECTED") = 1 =>
                (~VoiceOpen(vad_state_) /\ vad_state_' = "VOICE_ACTIVE")
          /\ Count(events', "VOICE_LOST") = 1 =>
                (VoiceOpen(vad_state_) /\ vad_state_' = "SILENCE")
          /\ (event_callback_ /\ ~VoiceOpen(vad_state_) /\ VoiceOpen(vad_state_')) =>
                events' = <<"VOICE_DETECTED">>
          /\ (event_callback_ /\ VoiceOpen(vad_state_) /\ ~VoiceOpen(vad_state_')) =>
                events' = <<"VOICE_LOST">>
       ]_vars

\* a second VOICE_DETECTED has been reported, after the VOICE_LOST that closed the first
C36_Witness ==
    /\ event_callback_
    /\ voice_events_ = 2
    /\ events = <<"VOICE_DETECTED">>
    /\ before.lost = 1
    /\ vad_state_ = "VOICE_ACTIVE"


\* C37: single producer. Whatever begin/start/pause/resume/stop/end calls are made,
\* at most one capture task exists at any time, so audio_queue_ never has two tasks
\* running captureLoop at once.
C37_SingleProducer ==
    captureTasks(capture) <= 1


\* CRC-16/CCITT-FALSE bit by bit: the register shifted left by one bit, truncated to
\* 16 bits, and xored with the polynomial 0x1021 when the bit shifted out was set
crcShift(reg) ==
    IF reg >= 32768 THEN BitXor((reg * 2) % 65536, 4129) ELSE (reg * 2) % 65536

\* k shifts; the test on `next` has each step computed before the following one
RECURSIVE crcShifts(_, _)
crcShifts(reg, k) ==
    IF k = 0 THEN reg
    ELSE LET next == crcShift(reg)
         IN  IF next \in Nat THEN crcShifts(next, k - 1) ELSE 0

\* the register after the first n bytes of data: initial value 0xFFFF, each byte
\* xored into the high byte of the register and shifted out most significant bit
\* first, nothing reflected, no final xor
RECURSIVE crcBitwise(_, _)
crcBitwise(data, n) ==
    IF n = 0 THEN 65535
    ELSE LET prior == crcBitwise(data, n - 1)
             start == IF prior \in Nat THEN BitXor(prior, data[n] * 256) ELSE 0
         IN  IF start \in Nat THEN crcShifts(start, 8) ELSE 0

\* C38: calculateCRC16 (table-driven) returns the CRC-16/CCITT-FALSE value defined bit
\* by bit. Every entry of crc16_table is the register an index byte leaves after eight
\* shifts and "123456789" gives the check value 0x29B1 (both facts about constants,
\* evaluated once, before an empty message is serialized); for every prefix of every frame
\* serialize writes the table-driven value equals the bitwise one; and the two bytes
\* serialize stores after the payload are that value over header and payload, low
\* byte first.
C38_CrcIsCcittFalse ==
    /\ (codec_pc = "start" /\ msg.payload_ = <<>>) =>
          /\ \A i \in 0 .. 255 : crc16_table[i + 1] = crcShifts(i * 256, 8)
          /\ calculateCRC16(<<49, 50, 51, 52, 53, 54, 55, 56, 57>>, 9) = 10673
          /\ crcBitwise(<<49, 50, 51, 52, 53, 54, 55, 56, 57>>, 9) = 10673
    /\ codec_pc \in {"serialized", "decoded", "rejected"} =>
          LET after == PROTOCOL_HEADER_SIZE + Len(msg.payload_)
          IN  /\ Len(wire) = after + PROTOCOL_FOOTER_SIZE
              /\ \A k \in 0 .. Len(wire) : calculateCRC16(wire, k) = crcBitwise(wire, k)
              /\ wire[after + 1] = crcBitwise(wire, after) % 256
              /\ wire[after + 2] = crcBitwise(wire, after) \div 256

\* a frame with a payload has been serialized and the two bytes of its CRC differ, so
\* the order in which they are stored shows
C38_Witness ==
    /\ codec_pc = "serialized"
    /\ Len(msg.payload_) = MaxPayloadLen
    /\ wire[Len(wire) - 1] # wire[Len(wire)]
    /\ wire[Len(wire) - 1] + 256 * wire[Len(wire)]
          = calculateCRC16(wire, Len(wire) - PROTOCOL_FOOTER_SIZE)


\* the states in which a conversation with the gateway is going on
Conversation == {"VOICE_INPUT", "AI_PROCESSING", "AI_RESPONDING", "ANCIENT_MODE"}

\* what the call of update() whose trace is log has acted on last: the type of the
\* event taken from the queue, or TIMEOUT for an expired timeout
LastCause(log) ==
    LET causes == { i \in 1 .. Len(log) : log[i].k \in {"event", "timeout"} }
        last == CHOOSE i \in causes : \A j \in causes : j <= i
    IN  IF causes = {} THEN "NONE"
        ELSE IF log[last].k = "timeout" THEN "TIMEOUT" ELSE log[last].type

\* C39: under the table of setupStateMachine, whatever events are posted and whatever
\* timeouts expire, the machine starts in BOOT, enters VOICE_INPUT, AI_PROCESSING,
\* AI_RESPONDING or ANCIENT_MODE only from READY or from another of these four states,
\* and enters READY from a state outside these four only from AUTHENTICATING while
\* handling the AUTHENTICATED event.
C39_ConversationNeedsAuthentication ==
    /\ current_state_id_ = "BOOT"
    /\ [][ current_state_id_' # current_state_id_ =>
              /\ current_state_id_' \in Conversation =>
                     current_state_id_ \in Conversation \cup {"READY"}
              /\ (current_state_id_' = "READY" /\ current_state_id_ \notin Conversation) =>
                     /\ current_state_id_ = "AUTHENTICATING"
                     /\ LastCause(trace'.log) = "AUTHENTICATED"
         ]_vars

\* READY has been entered from AUTHENTICATING on the AUTHENTICATED event, with
\* onStateChange still running
C39_Witness ==
    /\ table = "application"
    /\ current_state_id_ = "READY"
    /\ previous_state_id_ = "AUTHENTICATING"
    /\ LastCause(trace.log) = "AUTHENTICATED"
    /\ stack # <<>>
    /\ stack[Len(stack)].f = "callback"
    /\ stack[Len(stack)].kind = "on_state_change"


\* C40: boot progress. Starting in BOOT with the table of setupStateMachine and the
\* events the application itself posts, the machine does not stay in CONFIG_LOADING
\* for ever: with update() called again and again it eventually reaches
\* WIFI_CONNECTING or ERROR_STATE.
C40_BootProgress ==
    <>(current_state_id_ \in {"WIFI_CONNECTING", "ERROR_STATE"})

============================================================================
